---- MODULE Spec2Model ----
(***************************************************************************)
(* Model of the rtlcss-api conversion service: the two direction drivers   *)
(* ltrToRtl / rtlToLtr (services/convert.js, stored in the second half of  *)
(* src/src/services/validator.js) and the in-memory CacheService           *)
(* (src/src/services/cache.js), the usage recorder (services/stats.js),    *)
(* the API-key store (services/auth.js), the request signing of            *)
(* utils/crypto.js with the auth middleware, and the convert and admin     *)
(* routers.                                                                *)
(*                                                                         *)
(* A CSS text is a sequence of atoms: identifiers, numbers, punctuation,   *)
(* a whitespace atom and whole comments.  The regular-expression passes of *)
(* rtlToLtr are run on that sequence by a small matcher, so that what a    *)
(* pass rewrites (selectors included) is decided by the pattern and not by *)
(* the position of the text in the style sheet.                            *)
(***************************************************************************)
EXTENDS Integers, Sequences, FiniteSets, TLC

VARIABLES
    input,      \* the css the caller supplied to the first conversion call
    cur,        \* the text the next chained conversion call receives
    ops,        \* how many operations have run
    cache,      \* CacheService.cache: entries in Map insertion order
    stats,      \* CacheService.stats
    now,        \* Date.now()
    last,       \* the operation that ran last, with what it saw and returned
    prevCall,   \* the conversion call that ran right before `last`, if any
    gcInterval, \* CacheService.gcInterval: the sweep timer is running
    apiCredentials, \* services/auth.js: the Map of API keys, in insertion order
    usageStats, \* services/stats.js: the Map of usage statistics per API key
    recordedCalls, \* every statsService.recordConversion call made, in order
    calls,      \* the ltrToRtl calls in flight: where each one stands
    running     \* the call that holds the thread, 0 when the thread is free

vars == <<input, cur, ops, cache, stats, now, last, prevCall, gcInterval,
          apiCredentials, usageStats, recordedCalls, calls, running>>

----------------------------------------------------------------------------
(* Bounds of the model *)

\* declarations per generated style sheet
MaxDecls == 2
\* chained conversion calls per behaviour of SpecConv
MaxCalls == 2
\* operations per behaviour of Spec
MaxOps == 3
\* the clock stops here
MaxTime == 3
\* largest finite ttl handed to set
MaxTtl == 2
\* largest rounded processing time a conversion reports
MaxProcMs == 1
\* CacheService.maxSize, scaled down from 1000 (cache.js:20)
maxSize == 2
\* CacheService.defaultTtl, scaled down from one hour (cache.js:23)
defaultTtl == 2
\* members of an options object handed to the validator
MaxOptionKeys == 2
\* entries kept in a usage history, scaled down from 100 (stats.js:66)
historyLimit == 2
\* recordConversion calls per behaviour of SpecStats
MaxRecords == 3
\* ltrToRtl calls in flight together
MaxConc == 3

----------------------------------------------------------------------------
(* CSS text as atoms *)

WS == " "
Punct == {WS, ".", "-", ":", ";", "{", "}", "@",
          "/*rtl:ignore*/", "/*rtl:remove*/", "/*rtl:end*/"}
LTR_PLACEHOLDER == "__LTR_PLACEHOLDER__"
RIGHT_PLACEHOLDER == "__RIGHT_PLACEHOLDER__"

\* \w of the regular expressions: the atom is made of word characters
IsWord(a) == a \notin Punct

Null == "null"

----------------------------------------------------------------------------
(* String.prototype.replace with a global regular expression *)

\* one element of a pattern: a set of atoms, possibly starred (\s*)
One(S) == [s |-> S, star |-> FALSE]
Star(S) == [s |-> S, star |-> TRUE]
Sp == Star({WS})

\* The index after the match of pat[k..] at text[i..], or 0 when there is none.
RECURSIVE MatchFrom(_, _, _, _)
MatchFrom(pat, k, text, i) ==
    IF k > Len(pat) THEN i
    ELSE IF pat[k].star
         THEN IF i <= Len(text) /\ text[i] \in pat[k].s
              THEN MatchFrom(pat, k, text, i + 1)
              ELSE MatchFrom(pat, k + 1, text, i)
         ELSE IF i <= Len(text) /\ text[i] \in pat[k].s
              THEN MatchFrom(pat, k + 1, text, i + 1)
              ELSE 0

\* the replacement string, with $1 standing for the first atom of the match
Subst(repl, g1) == [j \in DOMAIN repl |-> IF repl[j] = "$1" THEN g1 ELSE repl[j]]

\* rule = [pat, wb, repl]; wb is a trailing \b
RECURSIVE ReplaceFrom(_, _, _)
ReplaceFrom(rule, text, i) ==
    IF i > Len(text) THEN <<>>
    ELSE LET e == MatchFrom(rule.pat, 1, text, i)
             ok == /\ e # 0
                   /\ rule.wb => (e > Len(text) \/ ~IsWord(text[e]))
         IN IF ok
            THEN Subst(rule.repl, text[i]) \o ReplaceFrom(rule, text, e)
            ELSE <<text[i]>> \o ReplaceFrom(rule, text, i + 1)

Replace(text, rule) == ReplaceFrom(rule, text, 1)

Rule(pat, wb, repl) == [pat |-> pat, wb |-> wb, repl |-> repl]

\* /<prop>\s*:\s*<from>\s*;/gi  ->  '<prop>: <to>;'
DeclRule(prop, from, to) ==
    Rule(<<One({prop}), Sp, One({":"}), Sp, One({from}), Sp, One({";"})>>,
         FALSE, <<prop, ":", WS, to, ";">>)

\* /(margin|padding|border)-<from>/gi  ->  '$1-<to>'
BoxRule(from, to) ==
    Rule(<<One({"margin", "padding", "border"}), One({"-"}), One({from})>>,
         FALSE, <<"$1", "-", to>>)

\* /:\s*<from>\b/gi  ->  ': <to>'
ValueRule(from, to) ==
    Rule(<<One({":"}), Sp, One({from})>>, TRUE, <<":", WS, to>>)

----------------------------------------------------------------------------
(* rtlToLtr: the preprocessing that swaps directions before RTLCSS runs *)

\* the fifteen .replace() calls, in the order the code chains them
PreprocessRules ==
    << DeclRule("direction", "rtl", LTR_PLACEHOLDER),
       DeclRule("direction", "ltr", "rtl"),
       DeclRule("direction", LTR_PLACEHOLDER, "ltr"),
       BoxRule("left", RIGHT_PLACEHOLDER),
       BoxRule("right", "left"),
       BoxRule(RIGHT_PLACEHOLDER, "right"),
       ValueRule("left", RIGHT_PLACEHOLDER),
       ValueRule("right", "left"),
       ValueRule(RIGHT_PLACEHOLDER, "right"),
       DeclRule("float", "left", RIGHT_PLACEHOLDER),
       DeclRule("float", "right", "left"),
       DeclRule("float", RIGHT_PLACEHOLDER, "right"),
       DeclRule("text-align", "left", RIGHT_PLACEHOLDER),
       DeclRule("text-align", "right", "left"),
       DeclRule("text-align", RIGHT_PLACEHOLDER, "right") >>

RECURSIVE ApplyRules(_, _, _)
ApplyRules(text, rules, k) ==
    IF k > Len(rules) THEN text
    ELSE ApplyRules(Replace(text, rules[k]), rules, k + 1)

preprocessedCss(css) == ApplyRules(css, PreprocessRules, 1)

----------------------------------------------------------------------------
(* Options: a JavaScript object is a sequence of <<key, JSON value>> pairs *)
(* in insertion order.                                                     *)

defaultOptions ==
    << <<"autoRename", "false">>, <<"autoRenameStrict", "false">>,
       <<"blacklist", "{}">>, <<"clean", "true">>, <<"greedy", "false">>,
       <<"processUrls", "false">>, <<"stringMap", "[]">>,
       <<"useCalc", "false">> >>

HasKey(obj, k) == \E j \in DOMAIN obj : obj[j][1] = k
ValueOf(obj, k) == obj[CHOOSE j \in DOMAIN obj : obj[j][1] = k][2]

\* obj with k set to v: an existing key keeps its place, a new one goes last
Assign(obj, k, v) ==
    IF HasKey(obj, k)
    THEN [j \in DOMAIN obj |-> IF obj[j][1] = k THEN <<k, v>> ELSE obj[j]]
    ELSE Append(obj, <<k, v>>)

\* { ...a, ...b }
RECURSIVE SpreadFrom(_, _, _)
SpreadFrom(a, b, j) ==
    IF j > Len(b) THEN a ELSE SpreadFrom(Assign(a, b[j][1], b[j][2]), b, j + 1)

MergeOptions(rtlcssOptions) == SpreadFrom(defaultOptions, rtlcssOptions, 1)

----------------------------------------------------------------------------
(* rtlcss.process: the RTLCSS library the service calls.  One pass over    *)
(* the style sheet: selectors and preludes are copied, a declaration is    *)
(* mirrored by the first processor its property matches (direction, left,  *)
(* right, keyword), and the directive comments switch the mode.            *)

SwapSide(a) == IF a = "left" THEN "right" ELSE IF a = "right" THEN "left" ELSE a
SwapDir(a) == IF a = "ltr" THEN "rtl" ELSE IF a = "rtl" THEN "ltr" ELSE a

KeywordProps == {<<"float">>, <<"clear">>, <<"text-align">>}
Atoms(seq) == {seq[j] : j \in DOMAIN seq}

MirrorValue(prop, a) ==
    IF "direction" \in Atoms(prop) THEN SwapDir(a)
    ELSE IF "left" \in Atoms(prop) \/ "right" \in Atoms(prop) THEN a
    ELSE IF prop \in KeywordProps THEN SwapSide(a)
    ELSE a

Directives == {"/*rtl:ignore*/", "/*rtl:remove*/", "/*rtl:end*/"}

ScanInit == [out |-> <<>>, body |-> FALSE, ctx |-> "sel", mode |-> "transform",
             prop |-> <<>>]

ScanStep(st, a, clean) ==
    IF a \in Directives /\ clean
    THEN [st EXCEPT !.mode = IF a = "/*rtl:ignore*/" THEN "ignore"
                             ELSE IF a = "/*rtl:remove*/" THEN "remove"
                             ELSE "transform"]
    ELSE IF a = "{"
    THEN [st EXCEPT !.out = Append(@, a), !.body = TRUE, !.ctx = "prop",
                    !.prop = <<>>]
    ELSE IF a = "}"
    THEN [st EXCEPT !.out = Append(@, a), !.body = FALSE, !.ctx = "sel",
                    !.mode = "transform", !.prop = <<>>]
    ELSE IF ~st.body THEN [st EXCEPT !.out = Append(@, a)]
    ELSE IF st.mode = "remove" THEN st
    ELSE IF a = ":" /\ st.ctx = "prop"
    THEN [st EXCEPT !.out = Append(@, a), !.ctx = "val"]
    ELSE IF a = ";"
    THEN [st EXCEPT !.out = Append(@, a), !.ctx = "prop", !.prop = <<>>]
    ELSE IF a = WS \/ a \in Directives THEN [st EXCEPT !.out = Append(@, a)]
    ELSE IF st.ctx = "prop"
    THEN [st EXCEPT !.out = Append(@, IF st.mode = "transform"
                                      THEN SwapSide(a) ELSE a),
                    !.prop = Append(@, a)]
    ELSE [st EXCEPT !.out = Append(@, IF st.mode = "transform"
                                      THEN MirrorValue(st.prop, a) ELSE a)]

RECURSIVE Scan(_, _, _, _)
Scan(text, i, st, clean) ==
    IF i > Len(text) THEN st.out
    ELSE Scan(text, i + 1, ScanStep(st, text[i], clean), clean)

rtlcss_process(css, options) ==
    Scan(css, 1, ScanInit, ValueOf(options, "clean") = "true")

----------------------------------------------------------------------------
(* CacheService (cache.js).  The Map is a sequence of entries              *)
(* [key, value, expiresAt] in insertion order.                             *)

\* the number Infinity; every finite time of the model is below it
Infinity == 1000
Plus(a, b) == IF a = Infinity \/ b = Infinity THEN Infinity ELSE a + b

\* JavaScript truthiness of a string, null or undefined
Truthy(k) == k \notin {Null, "undefined", ""}

Has(c, key) == \E j \in DOMAIN c : c[j].key = key
IndexOf(c, key) == CHOOSE j \in DOMAIN c : c[j].key = key
Without(c, key) == SelectSeq(c, LAMBDA e : e.key # key)

\* Map.prototype.set: a present key keeps its place in the iteration order
MapSet(c, key, entry) ==
    IF Has(c, key)
    THEN [j \in DOMAIN c |-> IF c[j].key = key THEN entry ELSE c[j]]
    ELSE Append(c, entry)

\* the loop of evictOldest: <<oldestKey, oldestExpiry>> after entries j..
RECURSIVE OldestFrom(_, _, _, _)
OldestFrom(c, j, oldestKey, oldestExpiry) ==
    IF j > Len(c) THEN oldestKey
    ELSE IF c[j].expiresAt < oldestExpiry
         THEN OldestFrom(c, j + 1, c[j].key, c[j].expiresAt)
         ELSE OldestFrom(c, j + 1, oldestKey, oldestExpiry)

evictOldest(c, st) ==
    LET oldestKey == OldestFrom(c, 1, Null, Infinity)
    IN IF Truthy(oldestKey)
       THEN [cache |-> Without(c, oldestKey),
             stats |-> [st EXCEPT !.evicted = @ + 1]]
       ELSE [cache |-> c, stats |-> st]

set(c, st, key, value, ttl, t) ==
    LET ev == IF Len(c) >= maxSize THEN evictOldest(c, st)
              ELSE [cache |-> c, stats |-> st]
        entry == [key |-> key, value |-> value, expiresAt |-> Plus(t, ttl)]
    IN [cache |-> MapSet(ev.cache, key, entry),
        stats |-> [ev.stats EXCEPT !.stored = @ + 1]]

\* get without the expiry check
get_stale(c, st, key, t) ==
    IF ~Has(c, key)
    THEN [cache |-> c, stats |-> [st EXCEPT !.misses = @ + 1], ret |-> <<>>]
    ELSE [cache |-> c, stats |-> [st EXCEPT !.hits = @ + 1],
          ret |-> <<c[IndexOf(c, key)].value>>]

\* ret is <<>> for null and <<value>> for a value
get(c, st, key, t) ==
    IF ~Has(c, key)
    THEN [cache |-> c, stats |-> [st EXCEPT !.misses = @ + 1], ret |-> <<>>]
    ELSE LET item == c[IndexOf(c, key)]
         IN IF item.expiresAt < t
            THEN [cache |-> Without(c, key),
                  stats |-> [st EXCEPT !.misses = @ + 1, !.evicted = @ + 1],
                  ret |-> <<>>]
            ELSE [cache |-> c, stats |-> [st EXCEPT !.hits = @ + 1],
                  ret |-> <<item.value>>]

\* the sweep with <= in place of <
runGarbageCollection_inclusive(c, st, t) ==
    LET kept == SelectSeq(c, LAMBDA e : ~(e.expiresAt <= t))
    IN [cache |-> kept,
        stats |-> [st EXCEPT !.evicted = @ + (Len(c) - Len(kept))]]

runGarbageCollection(c, st, t) ==
    LET kept == SelectSeq(c, LAMBDA e : ~(e.expiresAt < t))
    IN [cache |-> kept,
        stats |-> [st EXCEPT !.evicted = @ + (Len(c) - Len(kept))]]

\* JSON.stringify of a text and of an object whose values are JSON already
RECURSIVE Text(_)
Text(css) == IF css = <<>> THEN "" ELSE Head(css) \o Text(Tail(css))

RECURSIVE Members(_, _)
Members(obj, j) ==
    IF j > Len(obj) THEN ""
    ELSE (IF j > 1 THEN "," ELSE "") \o "'" \o obj[j][1] \o "':" \o obj[j][2]
         \o Members(obj, j + 1)

stringify(obj) == "{" \o Members(obj, 1) \o "}"
Quoted(css) == "'" \o Text(css) \o "'"

\* data is [isString, str] or [isString, obj]; the md5 digest of the text is
\* taken to be the text itself (no collisions)
generateKey(prefix, data) ==
    IF data.isString THEN prefix \o ":" \o data.str
    ELSE prefix \o ":" \o stringify(data.obj)

----------------------------------------------------------------------------
(* The validator service (validator.js) *)

\* JSON texts of option values, by what typeof and Array.isArray say of them
BooleanJson == {"true", "false"}
PlainObjectJson == {"{}", "{'a':true}"}
ArrayJson == {"[]"}
OtherJson == {"null", "1", "'x'"}

\* an options argument that is no object: its only member is marked "#"
Primitive(json) == << <<"#", json>> >>
Primitives == { Primitive(v) : v \in {"null", "undefined", "7", "'clean'", "true"} }

allowedOptions ==
    <<"autoRename", "autoRenameStrict", "blacklist", "clean", "greedy",
      "processUrls", "stringMap", "useCalc">>

boolOptions ==
    <<"autoRename", "autoRenameStrict", "clean", "greedy", "processUrls",
      "useCalc">>

\* the outcome of validateRtlcssOptions: the error thrown ("" for none), the
\* option it names, the object returned
Invalid(code, option) == [err |-> code, option |-> option, ret |-> <<>>]

\* the keys of validatedOptions in the order the function assigns them
ValidatedKeys(options) ==
    SelectSeq(boolOptions \o <<"blacklist", "stringMap">>,
              LAMBDA k : HasKey(options, k))

\* validateRtlcssOptions that leaves the unknown keys out
validateRtlcssOptions_dropsUnknown(options) ==
    IF options \in Primitives THEN [err |-> "", option |-> "", ret |-> << <<>> >>]
    ELSE LET keys == ValidatedKeys(options)
         IN [err |-> "", option |-> "",
             ret |-> << [j \in DOMAIN keys |->
                           <<keys[j], ValueOf(options, keys[j])>>] >>]

validateRtlcssOptions(options) ==
    IF options \in Primitives THEN [err |-> "", option |-> "", ret |-> << <<>> >>]
    ELSE LET invalidOptions ==
                 SelectSeq(options,
                           LAMBDA p : \A j \in DOMAIN allowedOptions :
                                          allowedOptions[j] # p[1])
             badBools ==
                 SelectSeq(boolOptions,
                           LAMBDA k : /\ HasKey(options, k)
                                      /\ ValueOf(options, k) \notin BooleanJson)
             keys == ValidatedKeys(options)
         IN IF Len(invalidOptions) > 0
            THEN Invalid("INVALID_OPTIONS", invalidOptions[1][1])
            ELSE IF Len(badBools) > 0
            THEN Invalid("INVALID_OPTION_TYPE", badBools[1])
            ELSE IF /\ HasKey(options, "blacklist")
                    /\ ValueOf(options, "blacklist")
                          \notin PlainObjectJson \cup ArrayJson
            THEN Invalid("INVALID_OPTION_TYPE", "blacklist")
            ELSE IF /\ HasKey(options, "stringMap")
                    /\ ValueOf(options, "stringMap") \notin ArrayJson
            THEN Invalid("INVALID_OPTION_TYPE", "stringMap")
            ELSE [err |-> "", option |-> "",
                  ret |-> << [j \in DOMAIN keys |->
                                <<keys[j], ValueOf(options, keys[j])>>] >>]

----------------------------------------------------------------------------
(* Errors (utils/errors.js) *)

AppError(message, statusCode, errorCode) ==
    [message |-> message, statusCode |-> statusCode, errorCode |-> errorCode,
     isOperational |-> TRUE]

validationError(message, errorCode) == AppError(message, 422, errorCode)
internal(message, errorCode) == AppError(message, 500, errorCode)
badRequest(message, errorCode) == AppError(message, 400, errorCode)
unauthorized(message, errorCode) == AppError(message, 401, errorCode)
forbidden(message, errorCode) == AppError(message, 403, errorCode)

\* an Error of the runtime, no AppError
RuntimeError(message) ==
    [message |-> message, statusCode |-> 0, errorCode |-> "",
     isOperational |-> FALSE]

\* what rtlcss.process throws on a style sheet it cannot parse: an Error that
\* is no AppError (no statusCode, no errorCode, isOperational undefined)
CssSyntaxError ==
    [message |-> "<css input>:1:1: Unclosed block", statusCode |-> 0,
     errorCode |-> "", isOperational |-> FALSE]

\* rtlcss.process throws when the braces of the style sheet do not balance
RECURSIVE Depth(_, _, _)
Depth(css, i, d) ==
    IF i > Len(css) THEN d
    ELSE IF css[i] = "{" THEN Depth(css, i + 1, d + 1)
    ELSE IF css[i] = "}" THEN (IF d = 0 THEN -1 ELSE Depth(css, i + 1, d - 1))
    ELSE Depth(css, i + 1, d)

process_throws(css) == Depth(css, 1, 0) # 0

----------------------------------------------------------------------------
(* The conversion service (convert.js) *)

\* A css argument is a string (a sequence of atoms, <<>> the empty string) or
\* one of these values that are no strings
JsNull == <<"#null">>
JsUndefined == <<"#undefined">>
JsNumber(n) == <<"#number", n>>
NotStrings == {JsNull, JsUndefined, JsNumber("0"), JsNumber("7")}

typeof(css) ==
    IF css = JsNull THEN "object"
    ELSE IF css = JsUndefined THEN "undefined"
    ELSE IF css \in NotStrings THEN "number"
    ELSE "string"

\* !css
Falsy(css) == css \in {<<>>, JsNull, JsUndefined, JsNumber("0")}

\* an apiKey that was not passed
Undefined == "undefined"

\* the atoms that are one character of two UTF-8 bytes; the others are ASCII
TwoByteAtoms == {"é"}

\* css.length: the characters counted, not the bytes
RECURSIVE byteLength_length(_)
byteLength_length(css) ==
    IF css = <<>> THEN 0 ELSE Len(Head(css)) + byteLength_length(Tail(css))

\* Buffer.byteLength(css, 'utf8')
RECURSIVE byteLength(_)
byteLength(css) ==
    IF css = <<>> THEN 0
    ELSE (IF Head(css) \in TwoByteAtoms THEN 2 ELSE Len(Head(css)))
         + byteLength(Tail(css))

ZeroStats == [hits |-> 0, misses |-> 0, stored |-> 0, evicted |-> 0]

Result(convertedCss, originalSize, ms) ==
    [converted |-> convertedCss,
     stats |-> [originalSize |-> originalSize,
                convertedSize |-> byteLength(convertedCss),
                processingTimeMs |-> ms,
                cached |-> FALSE]]

\* the catch block with the wrapping left out
Rethrown_raw(error) == error

\* the catch block: an operational error is rethrown, any other is replaced
Rethrown(error) ==
    IF error.isOperational THEN error
    ELSE internal("Error processing CSS conversion", "CONVERSION_ERROR")

\* the outcome of a call that threw: nothing is returned, the caller gets the
\* error the catch block lets out
Threw(c, st, error) ==
    [cache |-> c, stats |-> st, err |-> Rethrown(error).errorCode,
     msg |-> Rethrown(error).message, ret |-> <<>>, key |-> "", rec |-> <<>>,
     statusCode |-> Rethrown(error).statusCode]

\* the css check that lets the empty string through
ValidCss_anyString(css) == typeof(css) = "string"

\* if (!css || typeof css !== 'string') throw ...
ValidCss(css) == ~(Falsy(css) \/ typeof(css) # "string")

InvalidCss == validationError("No valid CSS content provided", "INVALID_CSS")

\* the usage record written whether or not an apiKey came with the call
Recorded_always(apiKey, conversionType, result, processingTimeMs) ==
    << [apiKey |-> apiKey, conversionType |-> conversionType,
        originalSize |-> result.stats.originalSize,
        convertedSize |-> result.stats.convertedSize,
        processingTimeMs |-> processingTimeMs] >>

\* if (apiKey) await statsService.recordConversion({...}): the calls made.
\* A computed result passes the processing time it measured (taken here as
\* the rounded one), a cached result passes 0.
Recorded(apiKey, conversionType, result, processingTimeMs) ==
    IF Truthy(apiKey)
    THEN << [apiKey |-> apiKey, conversionType |-> conversionType,
             originalSize |-> result.stats.originalSize,
             convertedSize |-> result.stats.convertedSize,
             processingTimeMs |-> processingTimeMs] >>
    ELSE <<>>

\* the cache key of an ltrToRtl request: the options are merged over the
\* defaults, then {css, options} is serialised
ltrToRtlKey(css, rtlcssOptions) ==
    generateKey("ltr2rtl",
        [isString |-> FALSE,
         obj |-> << <<"css", Quoted(css)>>,
                    <<"options", stringify(MergeOptions(rtlcssOptions))>> >>])

\* ltrToRtl with the preprocessing of rtlToLtr pasted in
ltrToRtl_preprocessed(c, st, css, rtlcssOptions, apiKey, t, ms) ==
    IF ~ValidCss(css) THEN Threw(c, st, InvalidCss)
    ELSE IF process_throws(css) THEN Threw(c, st, CssSyntaxError)
    ELSE LET options == MergeOptions(rtlcssOptions)
             result == Result(rtlcss_process(preprocessedCss(css), options),
                              byteLength(css), ms)
         IN [cache |-> c, stats |-> st, err |-> "", msg |-> "",
             ret |-> <<result>>, key |-> "", rec |-> <<>>]

\* ltrToRtl that stores an entry for the request before it transforms
ltrToRtl_storesFirst(c, st, css, rtlcssOptions, apiKey, t, ms) ==
    IF ~ValidCss(css) THEN Threw(c, st, InvalidCss)
    ELSE LET options == MergeOptions(rtlcssOptions)
             cacheKey == ltrToRtlKey(css, rtlcssOptions)
             looked == get(c, st, cacheKey, t)
             result == Result(IF process_throws(css) THEN <<>>
                              ELSE rtlcss_process(css, options),
                              byteLength(css), ms)
             stored == set(looked.cache, looked.stats, cacheKey, result,
                           defaultTtl, t)
         IN IF looked.ret # <<>>
            THEN [cache |-> looked.cache, stats |-> looked.stats, err |-> "",
                  msg |-> "", ret |-> looked.ret, key |-> cacheKey,
                  rec |-> Recorded(apiKey, "ltr_to_rtl", looked.ret[1], 0)]
            ELSE IF process_throws(css)
            THEN Threw(stored.cache, stored.stats, CssSyntaxError)
            ELSE [cache |-> stored.cache, stats |-> stored.stats,
                  err |-> "", msg |-> "", ret |-> <<result>>,
                  key |-> cacheKey,
                  rec |-> Recorded(apiKey, "ltr_to_rtl", result, ms)]

\* ltrToRtl({css, rtlcssOptions, apiKey}) with css given directly; ms is the
\* rounded processing time the call measures.  The outcome: cache, stats, the
\* code and message of the error thrown ("" for none), the result returned,
\* the cache key computed and the statsService.recordConversion calls made.
ltrToRtl(c, st, css, rtlcssOptions, apiKey, t, ms) ==
    IF ~ValidCss(css) THEN Threw(c, st, InvalidCss)
    ELSE LET options == MergeOptions(rtlcssOptions)
             cacheKey == ltrToRtlKey(css, rtlcssOptions)
             looked == get(c, st, cacheKey, t)
         IN IF looked.ret # <<>>
            THEN [cache |-> looked.cache, stats |-> looked.stats, err |-> "",
                  msg |-> "", ret |-> looked.ret, key |-> cacheKey,
                  rec |-> Recorded(apiKey, "ltr_to_rtl", looked.ret[1], 0)]
            ELSE IF process_throws(css)
            THEN Threw(looked.cache, looked.stats, CssSyntaxError)
            ELSE LET result == Result(rtlcss_process(css, options),
                                      byteLength(css), ms)
                     stored == set(looked.cache, looked.stats, cacheKey,
                                   result, defaultTtl, t)
                 IN [cache |-> stored.cache, stats |-> stored.stats,
                     err |-> "", msg |-> "", ret |-> <<result>>,
                     key |-> cacheKey,
                     rec |-> Recorded(apiKey, "ltr_to_rtl", result, ms)]

\* rtlToLtr({css, rtlcssOptions, apiKey}): no cache is consulted
rtlToLtr(c, st, css, rtlcssOptions, apiKey, t, ms) ==
    IF ~ValidCss(css) THEN Threw(c, st, InvalidCss)
    ELSE IF process_throws(preprocessedCss(css))
    THEN Threw(c, st, CssSyntaxError)
    ELSE LET options == MergeOptions(rtlcssOptions)
             convertedCss == rtlcss_process(preprocessedCss(css), options)
             result ==
                 [converted |-> convertedCss,
                  stats |-> [originalSize |-> byteLength(css),
                             convertedSize |-> byteLength(convertedCss),
                             processingTimeMs |-> ms]]
         IN [cache |-> c, stats |-> st, err |-> "", msg |-> "",
             ret |-> <<result>>, key |-> "",
             rec |-> Recorded(apiKey, "rtl_to_ltr", result, ms)]

----------------------------------------------------------------------------
(* statsService (stats.js).  usageStats is a Map from an API key to its    *)
(* statistics, kept as entries [key, value] in insertion order.  A number  *)
(* is a natural, NaN or a field that was not supplied (undefined).         *)

NaN == -2
Missing == -1
\* a + b of JavaScript on these numbers
JsPlus(a, b) == IF a < 0 \/ b < 0 THEN NaN ELSE a + b

\* lastUsed: null
NoDate == -1

NewStats ==
    [totalConversions |-> 0, totalProcessingTimeMs |-> 0,
     totalOriginalSize |-> 0, totalConvertedSize |-> 0,
     conversionsByType |-> << <<"ltr_to_rtl", 0>>, <<"rtl_to_ltr", 0>> >>,
     lastUsed |-> NoDate, history |-> <<>>]

\* obj[k] += 1: a property the object lacks reads as undefined
Increment(obj, k) ==
    Assign(obj, k, IF HasKey(obj, k) THEN JsPlus(ValueOf(obj, k), 1) ELSE NaN)

HistoryEntry(data, t) ==
    [timestamp |-> t, conversionType |-> data.conversionType,
     originalSize |-> data.originalSize, convertedSize |-> data.convertedSize,
     processingTimeMs |-> data.processingTimeMs]

\* recordConversion without its try/catch and with a check of the type
recordConversion_strict(us, data, t) ==
    [usageStats |-> us,
     threw |-> data.conversionType \notin {"ltr_to_rtl", "rtl_to_ltr"}]

\* recordConversion that never cuts the history
recordConversion_keepsAll(us, data, t) ==
    LET created == IF Has(us, data.apiKey) THEN us
                   ELSE Append(us, [key |-> data.apiKey, value |-> NewStats])
        st == created[IndexOf(created, data.apiKey)].value
    IN [usageStats |->
            MapSet(created, data.apiKey,
                   [key |-> data.apiKey,
                    value |-> [st EXCEPT
                       !.totalConversions = @ + 1,
                       !.conversionsByType =
                           Increment(@, data.conversionType),
                       !.lastUsed = t,
                       !.history = <<HistoryEntry(data, t)>> \o @]]),
        threw |-> FALSE]

\* recordConversion(data) at time t: the Map afterwards and whether the
\* promise rejected.  Every statement sits in the try block and none of them
\* throws on an object, whatever its fields hold.
recordConversion(us, data, t) ==
    LET created == IF Has(us, data.apiKey) THEN us
                   ELSE Append(us, [key |-> data.apiKey, value |-> NewStats])
        st == created[IndexOf(created, data.apiKey)].value
        unshifted == <<HistoryEntry(data, t)>> \o st.history
        updated ==
            [totalConversions |-> st.totalConversions + 1,
             totalProcessingTimeMs |->
                 JsPlus(st.totalProcessingTimeMs, data.processingTimeMs),
             totalOriginalSize |->
                 JsPlus(st.totalOriginalSize, data.originalSize),
             totalConvertedSize |->
                 JsPlus(st.totalConvertedSize, data.convertedSize),
             conversionsByType |->
                 Increment(st.conversionsByType, data.conversionType),
             lastUsed |-> t,
             history |-> IF Len(unshifted) > historyLimit
                         THEN SubSeq(unshifted, 1, historyLimit)
                         ELSE unshifted]
    IN [usageStats |->
            MapSet(created, data.apiKey,
                   [key |-> data.apiKey, value |-> updated]),
        threw |-> FALSE]

----------------------------------------------------------------------------
(* authService (services/auth.js).  apiCredentials is a Map from an API    *)
(* key to [secret, createdAt, lastUsed, enabled], kept as entries in       *)
(* insertion order.  A returned boolean b is <<b>>, undefined and null are *)
(* <<>>.                                                                   *)

\* the keys uuidv4 hands out and the secrets randomBytes hands out
UuidPool == {"k1", "k2"}
SecretPool == {"s1", "s2"}

createApiCredentials(creds, apiKey, apiSecret, t) ==
    MapSet(creds, apiKey,
           [key |-> apiKey, secret |-> apiSecret, createdAt |-> t,
            lastUsed |-> NoDate, enabled |-> TRUE])

getApiSecret(creds, apiKey, t) ==
    IF ~Has(creds, apiKey) \/ ~creds[IndexOf(creds, apiKey)].enabled
    THEN [apiCredentials |-> creds, ret |-> <<>>]
    ELSE LET credentials == creds[IndexOf(creds, apiKey)]
         IN [apiCredentials |->
                 MapSet(creds, apiKey, [credentials EXCEPT !.lastUsed = t]),
             ret |-> <<credentials.secret>>]

\* return credentials && credentials.enabled
verifyApiKey(creds, apiKey) ==
    IF ~Has(creds, apiKey) THEN <<>>
    ELSE <<creds[IndexOf(creds, apiKey)].enabled>>

disableApiKey(creds, apiKey) ==
    IF ~Has(creds, apiKey)
    THEN [apiCredentials |-> creds, ret |-> <<FALSE>>]
    ELSE [apiCredentials |->
              MapSet(creds, apiKey,
                     [creds[IndexOf(creds, apiKey)] EXCEPT !.enabled = FALSE]),
          ret |-> <<TRUE>>]

getAllApiKeys(creds) ==
    [j \in DOMAIN creds |->
        [apiKey |-> creds[j].key, createdAt |-> creds[j].createdAt,
         lastUsed |-> creds[j].lastUsed, enabled |-> creds[j].enabled]]

----------------------------------------------------------------------------
(* utils/crypto.js and the auth middleware (middleware/auth.js) *)

\* config.get('auth.requestTimeout'), in seconds (config/default.js:12)
requestTimeout == 100000

\* Date.now() when the service started; `now` counts the milliseconds since
Epoch == 1000000000
DateNow(t) == Epoch + t

Abs(x) == IF x < 0 THEN 0 - x ELSE x

isTimestampValid(timestamp, dateNow) ==
    Abs(dateNow - timestamp) < requestTimeout * 1000

\* an X-Timestamp header: the decimal digits of n, digits followed by other
\* characters ("123abc"), no digits at all ("abc"), or no header
Digits(n) == <<"digits", n>>
DigitsThenText(n) == <<"digits-then-text", n>>
NoDigits == <<"abc">>
NoHeader == <<>>

\* parseInt(timestamp, 10): <<n>>, or <<>> for NaN
parseInt(timestamp) ==
    IF timestamp # NoHeader /\ timestamp[1] \in {"digits", "digits-then-text"}
    THEN <<timestamp[2]>>
    ELSE <<>>

\* a signature string: what it spells and how many bytes it has.  The hex
\* digest of an HMAC-SHA256 has 64 characters and stands for the payload and
\* the secret it was computed from (no two of them share a digest).
createSignature(payload, secret) == [text |-> <<payload, secret>>, bytes |-> 64]
PlainSignature(text) == [text |-> <<text>>, bytes |-> Len(text)]
NoSignature == [text |-> <<>>, bytes |-> 0]

\* `${req.path}|${req.method}|${timestamp}`
Payload(path, method, timestamp) == <<path, method, timestamp>>

\* verifySignature that accepts every signature of the right length
verifySignature_lengthOnly(payload, signature, secret) ==
    LET expectedSignature == createSignature(payload, secret)
    IN IF signature.bytes # expectedSignature.bytes
       THEN [threw |-> TRUE, ret |-> FALSE]
       ELSE [threw |-> FALSE, ret |-> TRUE]

\* crypto.timingSafeEqual throws a RangeError when the two buffers differ in
\* byte length
verifySignature(payload, signature, secret) ==
    LET expectedSignature == createSignature(payload, secret)
    IN IF signature.bytes # expectedSignature.bytes
       THEN [threw |-> TRUE, ret |-> FALSE]
       ELSE [threw |-> FALSE, ret |-> signature = expectedSignature]

\* next() called without an error
NoError ==
    [message |-> "", statusCode |-> 0, errorCode |-> "", isOperational |-> FALSE]

\* the middleware on a request at time t: the credentials Map afterwards,
\* req.apiKey afterwards, and the calls made to next, each with its error
authMiddleware(creds, req, t) ==
    LET apiKey == req.apiKey
        timestamp == req.timestamp
        signature == req.signature
        Refused(c, error) ==
            [apiCredentials |-> c, apiKey |-> Undefined, next |-> <<error>>]
    IN IF ~Truthy(apiKey) \/ timestamp = NoHeader \/ signature.bytes = 0
       THEN Refused(creds, unauthorized("Missing authentication headers",
                                        "MISSING_AUTH_HEADERS"))
       ELSE IF parseInt(timestamp) = <<>>
       THEN Refused(creds, badRequest("Invalid timestamp format",
                                      "INVALID_TIMESTAMP"))
       ELSE IF ~isTimestampValid(parseInt(timestamp)[1], DateNow(t))
       THEN Refused(creds, unauthorized("Request timestamp expired",
                                        "TIMESTAMP_EXPIRED"))
       ELSE LET looked == getApiSecret(creds, apiKey, t)
            IN IF looked.ret = <<>>
               THEN Refused(looked.apiCredentials,
                            unauthorized("Invalid API key", "INVALID_API_KEY"))
               ELSE LET verified ==
                            verifySignature(
                                Payload(req.path, req.method, timestamp),
                                signature, looked.ret[1])
                    IN IF verified.threw
                       THEN Refused(looked.apiCredentials,
                                    unauthorized("Authentication failed",
                                                 "AUTH_FAILED"))
                       ELSE IF ~verified.ret
                       THEN Refused(looked.apiCredentials,
                                    unauthorized("Invalid signature",
                                                 "INVALID_SIGNATURE"))
                       ELSE [apiCredentials |-> looked.apiCredentials,
                             apiKey |-> apiKey, next |-> <<NoError>>]

----------------------------------------------------------------------------
(* The convert routes (api/convert.js), the upload middleware              *)
(* (middleware/upload.js) and the error middleware (middleware/error.js).  *)
(* A request carries the three auth headers, req.path, req.method and the  *)
(* css and options of its JSON body; it uploads no file and stays within   *)
(* the rate limit.                                                         *)

\* the brace counter of validateCss: -1 once a block is closed that was not
\* opened
RECURSIVE Braces(_, _, _)
Braces(css, i, braces) ==
    IF i > Len(css) THEN braces
    ELSE IF css[i] = "{" THEN Braces(css, i + 1, braces + 1)
    ELSE IF css[i] = "}"
         THEN (IF braces = 0 THEN -1 ELSE Braces(css, i + 1, braces - 1))
    ELSE Braces(css, i + 1, braces)

\* the atom ends in a character of [a-z-]
EndsInLetter(a) ==
    \/ a = "-"
    \/ /\ IsWord(a)
       /\ a \notin {"0", "7"} \cup TwoByteAtoms \cup Directives

\* the last atom before position p that is no whitespace, 0 for none
RECURSIVE Before(_, _)
Before(css, p) ==
    IF p <= 1 THEN 0
    ELSE IF css[p - 1] = WS THEN Before(css, p - 1) ELSE p - 1

\* /[a-z-]+\s*:[^;]+;/i.test(css)
hasPropertyValuePairs(css) ==
    \E p \in DOMAIN css :
        /\ css[p] = ":"
        /\ Before(css, p) # 0 /\ EndsInLetter(css[Before(css, p)])
        /\ p + 1 <= Len(css) /\ css[p + 1] # ";"
        /\ \E q \in (p + 2)..Len(css) : css[q] = ";"

validateCss(css) ==
    IF Falsy(css) \/ typeof(css) # "string" THEN FALSE
    ELSE Braces(css, 1, 0) = 0 /\ hasPropertyValuePairs(css)

\* the response the error middleware sends for an error passed to next
errorMiddleware(err) ==
    IF err.isOperational
    THEN [status |-> err.statusCode, code |-> err.errorCode, data |-> <<>>]
    ELSE [status |-> 500, code |-> "INTERNAL_ERROR", data |-> <<>>]

\* handleCssUpload on a request without a file: what it passes to next
handleCssUpload(req) ==
    IF Falsy(req.css)
    THEN badRequest("No CSS content provided", "NO_CSS_CONTENT")
    ELSE NoError

\* what a conversion call did, its usage record included: were the
\* recorder's promise to reject, the await would throw inside the try block
\* and the catch block would turn that into the call's error
Served(r, us, t) ==
    LET rc == IF r.rec = <<>> THEN [usageStats |-> us, threw |-> FALSE]
              ELSE recordConversion(us, r.rec[1], t)
    IN [out |-> IF rc.threw
                THEN [Threw(r.cache, r.stats, RuntimeError("TypeError"))
                         EXCEPT !.key = r.key, !.rec = r.rec]
                ELSE r,
        usageStats |-> rc.usageStats]

\* if (req.body.options) is not taken
NoOptions(options) == options \in {Primitive("null"), Primitive("undefined")}

\* the options handed to the conversion: {} when the body has none, else
\* what validateRtlcssOptions makes of them
Validated(options) ==
    IF NoOptions(options)
    THEN [err |-> "", option |-> "", ret |-> << <<>> >>]
    ELSE validateRtlcssOptions(options)

\* the answer of processConversion once the options are validated and, if
\* they are valid, the conversion is served
Handled(c, st, us, validated, served) ==
    IF validated.err # ""
    THEN [cache |-> c, stats |-> st, usageStats |-> us, rec |-> <<>>,
          res |-> errorMiddleware(
                      validationError(validated.option, validated.err))]
    ELSE IF served.out.err # ""
    THEN [cache |-> served.out.cache, stats |-> served.out.stats,
          usageStats |-> served.usageStats, rec |-> served.out.rec,
          res |-> errorMiddleware(
                      AppError(served.out.msg, served.out.statusCode,
                               served.out.err))]
    ELSE [cache |-> served.out.cache, stats |-> served.out.stats,
          usageStats |-> served.usageStats, rec |-> served.out.rec,
          res |-> [status |-> 200, code |-> "",
                   data |-> <<[converted |-> served.out.ret[1].converted,
                               stats |-> served.out.ret[1].stats]>>]]

\* processConversion(req, res, next, conversionFunction) with req.apiKey as
\* the auth middleware left it: the services afterwards and the response
processConversion(c, st, us, req, apiKey, t, ms, op) ==
    Handled(c, st, us, Validated(req.options),
            Served(IF op = "ltrToRtl"
                   THEN ltrToRtl(c, st, req.css,
                                 Validated(req.options).ret[1], apiKey, t, ms)
                   ELSE rtlToLtr(c, st, req.css,
                                 Validated(req.options).ret[1], apiKey, t, ms),
                   us, t))

\* the route once the auth middleware and the upload middleware have run:
\* the handler runs only if both called next without an error
Routed(auth, upload, done, c, st, us) ==
    LET Stopped(error) ==
            [apiCredentials |-> auth.apiCredentials, cache |-> c,
             stats |-> st, usageStats |-> us, rec |-> <<>>,
             apiKey |-> auth.apiKey, next |-> auth.next,
             res |-> errorMiddleware(error)]
    IN IF auth.next # <<NoError>> THEN Stopped(auth.next[1])
       ELSE IF upload # NoError THEN Stopped(upload)
       ELSE [apiCredentials |-> auth.apiCredentials, cache |-> done.cache,
             stats |-> done.stats, usageStats |-> done.usageStats,
             rec |-> done.rec, apiKey |-> auth.apiKey, next |-> auth.next,
             res |-> done.res]

\* router.post(path, authMiddleware, generalLimiter, handleCssUpload,
\* cleanupUploads, handler): the credentials, the services, req.apiKey and
\* the calls the auth middleware made to next, and the response
convertRoute(creds, c, st, us, req, t, ms, op) ==
    Routed(authMiddleware(creds, req, t), handleCssUpload(req),
           processConversion(c, st, us, req,
                             authMiddleware(creds, req, t).apiKey, t, ms, op),
           c, st, us)

----------------------------------------------------------------------------
(* The admin router (api/admin.js) *)

\* process.env.ADMIN_API_TOKEN || 'development_admin_token'
configToken == "development_admin_token"

\* adminAuth: what it passes to next
adminAuth(adminToken) ==
    IF ~Truthy(adminToken) \/ adminToken # configToken
    THEN forbidden("Admin authentication required", "ADMIN_AUTH_REQUIRED")
    ELSE NoError

\* the middleware registered with router.use: none, the line
\* `// router.use(adminAuth);` is a comment
routerMiddleware == {}

\* what reaches the handler of an admin route: NoError, or the error of the
\* router's middleware
adminGate(adminToken) ==
    IF "adminAuth" \in routerMiddleware THEN adminAuth(adminToken)
    ELSE NoError

\* cacheService.getStats(), hitRate rounded down to a whole per cent
getStats(c, st) ==
    [hits |-> st.hits, misses |-> st.misses, stored |-> st.stored,
     evicted |-> st.evicted, size |-> Len(c),
     hitRate |-> IF st.hits + st.misses > 0
                 THEN (st.hits * 100) \div (st.hits + st.misses)
                 ELSE 0]

RECURSIVE TotalConversions(_, _)
TotalConversions(us, j) ==
    IF j > Len(us) THEN 0
    ELSE us[j].value.totalConversions + TotalConversions(us, j + 1)

\* statsService.getAggregateStats(): the counts of its answer
getAggregateStats(us) ==
    [totalConversions |-> TotalConversions(us, 1), apiKeyCount |-> Len(us)]

\* statsService.getStats(apiKey)
getUsageStats(us, apiKey) ==
    IF Has(us, apiKey) THEN us[IndexOf(us, apiKey)].value ELSE NewStats

----------------------------------------------------------------------------
(* ltrToRtl as the event loop runs it.  An async function runs on the      *)
(* single thread from its invocation to its first await, and from each     *)
(* await to the next; other calls run only while it waits.  A call stands  *)
(* at: "looked" (cacheService.get returned null), "transformed"            *)
(* (rtlcss.process returned), "awaiting" (at `await                        *)
(* statsService.recordConversion`), "returned" or "threw".                 *)

Final(pc) == pc \in {"returned", "threw"}

\* ltrToRtl with an await between the lookup and the transformation
Suspends_afterLookup(pc) == pc \in {"awaiting", "looked"}

\* the points at which a call gives up the thread: the awaits of
\* validator.js:162 and 207; none lies between get (155) and set (195)
Suspends(pc) == pc = "awaiting"

\* who holds the thread once call p stands at pc
Holder(p, pc) == IF Suspends(pc) \/ Final(pc) THEN 0 ELSE p

\* a call that has just been invoked
NewCall(css, rtlcssOptions, apiKey) ==
    [css |-> css, opts |-> rtlcssOptions, apiKey |-> apiKey, pc |-> "start",
     hit |-> FALSE, result |-> <<>>, err |-> ""]

\* the call stops with the result it returns: at the await when there is an
\* apiKey to record for, at the return otherwise
Finish(call, result, hit) ==
    [call EXCEPT !.pc = IF Truthy(call.apiKey) THEN "awaiting" ELSE "returned",
                 !.result = <<result>>, !.hit = hit]

----------------------------------------------------------------------------
(* What the properties read from a style sheet *)

NoWS(text) == SelectSeq(text, LAMBDA a : a # WS)

RECURSIVE FirstIndex(_, _, _)
FirstIndex(text, a, i) ==
    IF i > Len(text) THEN 0
    ELSE IF text[i] = a THEN i ELSE FirstIndex(text, a, i + 1)

\* the selector (or at-rule prelude) of the first rule, whitespace dropped
SelectorOf(text) ==
    LET b == FirstIndex(text, "{", 1)
    IN IF b = 0 THEN <<>> ELSE NoWS(SubSeq(text, 1, b - 1))

DFlush(st) ==
    IF st.prop = <<>> THEN [st EXCEPT !.val = <<>>, !.ctx = "prop"]
    ELSE [st EXCEPT !.decls = Append(@, [prop |-> st.prop, val |-> st.val,
                                         mode |-> st.mode]),
                    !.prop = <<>>, !.val = <<>>, !.ctx = "prop"]

DStep(st, a) ==
    IF a \in Directives
    THEN [st EXCEPT !.mode = IF a = "/*rtl:ignore*/" THEN "ignore"
                             ELSE IF a = "/*rtl:remove*/" THEN "remove"
                             ELSE "transform"]
    ELSE IF a = "{" THEN [st EXCEPT !.body = TRUE, !.ctx = "prop",
                                    !.prop = <<>>, !.val = <<>>]
    ELSE IF a = "}" THEN [DFlush(st) EXCEPT !.body = FALSE, !.mode = "transform"]
    ELSE IF ~st.body \/ a = WS THEN st
    ELSE IF a = ":" /\ st.ctx = "prop" THEN [st EXCEPT !.ctx = "val"]
    ELSE IF a = ";" THEN DFlush(st)
    ELSE IF st.ctx = "prop" THEN [st EXCEPT !.prop = Append(@, a)]
    ELSE [st EXCEPT !.val = Append(@, a)]

RECURSIVE DScan(_, _, _)
DScan(text, i, st) ==
    IF i > Len(text) THEN st.decls ELSE DScan(text, i + 1, DStep(st, text[i]))

\* the declarations of a style sheet, each with the directive mode it is in
DeclsOf(text) ==
    DScan(text, 1, [decls |-> <<>>, body |-> FALSE, ctx |-> "prop",
                    mode |-> "transform", prop |-> <<>>, val |-> <<>>])

----------------------------------------------------------------------------
(* The style sheets the conversions are run on *)

Selectors ==
    { <<".", "test">>,
      <<".", "margin", "-", "left">>,
      <<"a", ":", "left">>,
      <<"@", "page", WS, ":", "right">> }

\* <<property, value>>
DeclSet ==
    { <<<<b, "-", sd>>, "10px">> : b \in {"margin", "padding", "border"},
                                   sd \in {"left", "right"} }
    \cup { <<<<sd>>, "10px">> : sd \in {"left", "right"} }
    \cup { <<<<p>>, sd>> : p \in {"float", "clear", "text-align"},
                           sd \in {"left", "right"} }
    \cup { <<<<"direction">>, d>> : d \in {"ltr", "rtl"} }
    \cup { <<<<"color">>, "red">> }

DeclText(d, space) ==
    d[1] \o <<":">> \o (IF space THEN <<WS>> ELSE <<>>) \o <<d[2]>>

\* the declarations ds[j..], separated by ';', the last one closed by ';'
\* only if semi
RECURSIVE BodyFrom(_, _, _, _)
BodyFrom(ds, j, space, semi) ==
    IF j > Len(ds) THEN <<>>
    ELSE DeclText(ds[j], space)
         \o (IF j < Len(ds) \/ semi THEN <<";">> ELSE <<>>)
         \o BodyFrom(ds, j + 1, space, semi)

\* wrap is "none", or the directive ("ignore", "remove") whose span holds the
\* first declaration
Sheet(sel, ds, space, semi, wrap) ==
    sel \o <<"{">>
    \o (IF wrap = "none" THEN BodyFrom(ds, 1, space, semi)
        ELSE <<IF wrap = "ignore" THEN "/*rtl:ignore*/" ELSE "/*rtl:remove*/">>
             \o DeclText(ds[1], space) \o <<";", "/*rtl:end*/">>
             \o BodyFrom(ds, 2, space, semi))
    \o <<"}">>

\* the declarations that follow the first one of a sheet
TailDecls ==
    { <<<<"margin", "-", "left">>, "10px">>, <<<<"float">>, "right">>,
      <<<<"color">>, "red">> }

\* every declaration of DeclSet, followed by up to MaxDecls - 1 more
DeclLists ==
    UNION { { <<d>> \o t : d \in DeclSet, t \in [1..(n - 1) -> TailDecls] } :
            n \in 1..MaxDecls }

PlainSelector == <<".", "test">>

\* every sheet under the plain selector; the other selectors head the sheets
\* of one declaration without directives
Inputs ==
    { Sheet(PlainSelector, ds, space, semi, wrap) :
        ds \in DeclLists, space \in BOOLEAN, semi \in BOOLEAN,
        wrap \in {"none", "ignore", "remove"} }
    \cup { Sheet(sel, <<d>>, space, semi, "none") :
        sel \in Selectors, d \in DeclSet, space \in BOOLEAN, semi \in BOOLEAN }

\* the requests of SpecDriver: two style sheets and the empty string
DriverCss ==
    { <<".", "a", "{", "float", ":", "left", ";", "}">>,
      <<".", "b", "{", "/*rtl:ignore*/", "left", ":", "0", ";", "/*rtl:end*/",
        "margin", "-", "left", ":", "0", "}">>,
      <<>> }
DriverOptions == { <<>>, << <<"clean", "false">> >> }

\* Options as the caller builds them, nested values still objects: a blacklist
\* is a sequence of <<name, JSON value>> members in insertion order, a
\* stringMap a sequence of such objects, any other value its JSON text.
RECURSIVE Elements(_, _)
Elements(arr, j) ==
    IF j > Len(arr) THEN ""
    ELSE (IF j > 1 THEN "," ELSE "") \o stringify(arr[j]) \o Elements(arr, j + 1)

\* JSON.stringify of the value of option k
Json(k, v) ==
    IF k = "blacklist" THEN stringify(v)
    ELSE IF k = "stringMap" THEN "[" \o Elements(v, 1) \o "]"
    ELSE v

\* the rtlcssOptions object with every value serialised
Flatten(o) == [j \in DOMAIN o |-> <<o[j][1], Json(o[j][1], o[j][2])>>]

Reverse(seq) == [j \in DOMAIN seq |-> seq[Len(seq) + 1 - j]]

BlacklistMembers == << <<"a", "true">>, <<"b", "true">> >>
StringMapEntry == << <<"name", "'x'">>, <<"search", "'left'">> >>

\* the requests whose cache keys are compared: clean, blacklist and stringMap
\* left out, given with the default value or given otherwise, nested members
\* in either order, top-level keys in either order
KeyOptions ==
    LET cleans == { <<>>, << <<"clean", "true">> >>, << <<"clean", "false">> >> }
        blacklists == { <<>>, << <<"blacklist", <<>>>> >>,
                        << <<"blacklist", BlacklistMembers>> >>,
                        << <<"blacklist", Reverse(BlacklistMembers)>> >> }
        stringMaps == { <<>>, << <<"stringMap", <<>>>> >>,
                        << <<"stringMap", <<StringMapEntry>>>> >>,
                        << <<"stringMap", <<Reverse(StringMapEntry)>>>> >> }
    IN { c \o b \o m : c \in cleans, b \in blacklists, m \in stringMaps }
       \cup { m \o b \o c : c \in cleans, b \in blacklists, m \in stringMaps }

\* the requests of SpecApi: the service called directly with two style
\* sheets, a style sheet whose block is never closed, the empty string and
\* values that are no strings; with options that hold an unknown key; with
\* and without an apiKey
ApiCss ==
    { <<".", "a", "{", "float", ":", "left", ";", "}">>,
      <<".", "é", "{", "margin", "-", "left", ":", "0", "}">>,
      <<".", "a", "{", "float", ":", "left", ";">>,
      <<>>, JsNull, JsUndefined, JsNumber("7") }
ApiOptions == { <<>>, << <<"rtl", "true">> >> }
ApiKeys == { Undefined, "", "k1" }

\* the options handed to the validator: what is no object, and the objects
\* of up to MaxOptionKeys members, recognized or not, of any type
OptionKeys == {"clean", "useCalc", "blacklist", "stringMap", "rtl"}
JsonValues == BooleanJson \cup PlainObjectJson \cup ArrayJson \cup OtherJson

RECURSIVE ObjectsOf(_)
ObjectsOf(n) ==
    IF n = 0 THEN { <<>> }
    ELSE LET shorter == ObjectsOf(n - 1)
         IN shorter \cup
            { Append(o, <<k, v>>) :
                o \in {x \in shorter : Len(x) = n - 1},
                k \in OptionKeys, v \in JsonValues }

ValidatorInputs ==
    Primitives
    \cup { o \in ObjectsOf(MaxOptionKeys) :
             \A i, j \in DOMAIN o : i # j => o[i][1] # o[j][1] }

\* the data handed to statsService.recordConversion directly: two API keys,
\* the two conversion types, one the service does not know and none at all,
\* sizes given or left out
RecordInputs ==
    { [apiKey |-> k, conversionType |-> ty, originalSize |-> n,
       convertedSize |-> 1, processingTimeMs |-> 0] :
        k \in {"k1", "k2"},
        ty \in {"ltr_to_rtl", "rtl_to_ltr", "other", Undefined},
        n \in {1, Missing} }

\* the style sheets converted while the recorder is watched: one that
\* converts and one whose block is never closed
StatsCss ==
    { <<".", "a", "{", "float", ":", "left", ";", "}">>,
      <<".", "a", "{", "float", ":", "left", ";">> }

\* the requests sent to the convert routes.  The css of a body: a style
\* sheet, '{invalid css', a rule without declarations, none, a number.
HttpCss ==
    { <<".", "a", "{", "float", ":", "left", ";", "}">>,
      <<"{", "invalid", " ", "css">>,
      <<".", "a", "{", "}">>,
      JsUndefined, JsNumber("7") }
\* the options of a body: none, valid ones, ones with an unknown key
HttpOptions ==
    { Primitive("undefined"), << <<"clean", "false">> >>,
      << <<"rtl", "true">> >> }

Request(apiKey, timestamp, signature, path, css, options) ==
    [apiKey |-> apiKey, timestamp |-> timestamp, signature |-> signature,
     path |-> path, method |-> "POST", css |-> css, options |-> options]

\* req.path inside the router mounted at /api/convert
RoutePath(op) == IF op = "ltrToRtl" THEN "/ltr-to-rtl" ELSE "/rtl-to-ltr"

\* the X-Timestamp headers tried at time t: none, no number, the server's
\* time, the same followed by text, a time requestTimeout ago
TimestampHeaders(t) ==
    { NoHeader, NoDigits, Digits(DateNow(t)), DigitsThenText(DateNow(t)),
      Digits(DateNow(t) - requestTimeout * 1000) }

\* the X-Signature headers tried: none, 'invalid-signature', and the digest
\* of the payload under each secret there is
SignatureHeaders(path, timestamp) ==
    { NoSignature, PlainSignature("invalid-signature") }
    \cup { createSignature(Payload(path, "POST", timestamp), secret) :
             secret \in SecretPool }

\* requests that try the auth headers, with a body that converts
HeaderProbes(t, path) ==
    UNION { { Request(k, ts, sig, path,
                      <<".", "a", "{", "float", ":", "left", ";", "}">>,
                      Primitive("undefined")) :
                k \in {Undefined, "k1", "invalid-key"},
                sig \in SignatureHeaders(path, ts) } :
            ts \in TimestampHeaders(t) }

\* requests signed with the secret of a key in the store, with any body
BodyProbes(creds, t, path) ==
    { Request(creds[j].key, Digits(DateNow(t)),
              createSignature(Payload(path, "POST", Digits(DateNow(t))),
                              creds[j].secret),
              path, css, o) :
        j \in DOMAIN creds, css \in HttpCss, o \in HttpOptions }

\* the X-Admin-Token headers tried: none, a wrong one, the configured one
AdminTokens == {Undefined, "wrong-token", configToken}

\* the requests made concurrently: two style sheets, with and without an
\* apiKey
ConcCss ==
    { <<".", "a", "{", "float", ":", "left", ";", "}">>,
      <<".", "b", "{", "margin", "-", "left", ":", "0", "}">> }
ConcKeys == {Undefined, "k1"}

\* how far from the server's clock the timestamps handed to isTimestampValid
\* lie, in milliseconds: around 5 minutes, 10 minutes, and around the
\* configured requestTimeout
TimestampOffsets ==
    LET d == {0, 1, 5000, 299999, 300000, 600000, 99999999, 100000000}
    IN d \cup {0 - x : x \in d}

\* the API keys looked up: the ones that can exist and one that never does
LookupKeys == UuidPool \cup {"invalid-key"}

\* the keys, values and ttls handed to the cache directly
Keys == {"", "a", "b"}
Value(tag) == Result(<<tag>>, 0, 0)
Values == {Value("v1"), Value("v2")}
Ttls == (1..MaxTtl) \cup {Infinity}
\* the keys stored while the sweep timer is watched
GcKeys == {"a", "b"}

----------------------------------------------------------------------------
(* State and actions *)

NoOp == [op |-> "none", key |-> "", css |-> <<>>, opts |-> <<>>,
         apiKey |-> Undefined, value |-> <<>>,
         req |-> <<>>, next |-> <<>>, status |-> 0,
         before |-> <<>>, statsBefore |-> ZeroStats, time |-> 0,
         err |-> "", msg |-> "", ret |-> <<>>, rec |-> <<>>]

Ran(op) == [NoOp EXCEPT !.op = op, !.before = cache, !.statsBefore = stats,
                        !.time = now]

IsCall(o) == o.op \in {"ltrToRtl", "rtlToLtr"}

InitCache ==
    /\ cache = <<>>
    /\ stats = ZeroStats
    /\ now = 0
    /\ last = NoOp
    /\ prevCall = NoOp
    /\ ops = 0
    /\ gcInterval = TRUE
    /\ apiCredentials = <<>>
    /\ usageStats = <<>>
    /\ recordedCalls = <<>>
    /\ calls = <<>>
    /\ running = 0

\* Spec, SpecDriver: no chained text
Init ==
    /\ InitCache
    /\ input = <<>>
    /\ cur = <<>>

InitConv ==
    /\ InitCache
    /\ input \in Inputs
    /\ cur = input

\* cacheService.set(key, value, ttl)
Set(key, value, ttl) ==
    /\ ops < MaxOps
    /\ LET r == set(cache, stats, key, value, ttl, now)
       IN /\ cache' = r.cache
          /\ stats' = r.stats
    /\ last' = [Ran("set") EXCEPT !.key = key, !.value = <<value>>]
    /\ ops' = ops + 1
    /\ prevCall' = NoOp
    /\ UNCHANGED <<input, cur, now, gcInterval>>
    /\ UNCHANGED <<apiCredentials, usageStats, recordedCalls, calls, running>>

\* cacheService.get(key)
Get(key) ==
    /\ ops < MaxOps
    /\ LET r == get(cache, stats, key, now)
       IN /\ cache' = r.cache
          /\ stats' = r.stats
          /\ last' = [Ran("get") EXCEPT !.key = key, !.ret = r.ret]
    /\ ops' = ops + 1
    /\ prevCall' = NoOp
    /\ UNCHANGED <<input, cur, now, gcInterval>>
    /\ UNCHANGED <<apiCredentials, usageStats, recordedCalls, calls, running>>

\* cacheService.delete(key)
Delete(key) ==
    /\ ops < MaxOps
    /\ cache' = Without(cache, key)
    /\ last' = [Ran("delete") EXCEPT !.key = key]
    /\ ops' = ops + 1
    /\ prevCall' = NoOp
    /\ UNCHANGED <<input, cur, now, stats, gcInterval>>
    /\ UNCHANGED <<apiCredentials, usageStats, recordedCalls, calls, running>>

\* cacheService.clear()
Clear ==
    /\ ops < MaxOps
    /\ cache' = <<>>
    /\ last' = Ran("clear")
    /\ ops' = ops + 1
    /\ prevCall' = NoOp
    /\ UNCHANGED <<input, cur, now, stats, gcInterval>>
    /\ UNCHANGED <<apiCredentials, usageStats, recordedCalls, calls, running>>

\* the gcInterval timer fires
RunGarbageCollection ==
    /\ ops < MaxOps
    /\ gcInterval
    /\ LET r == runGarbageCollection(cache, stats, now)
       IN /\ cache' = r.cache
          /\ stats' = r.stats
    /\ last' = Ran("gc")
    /\ ops' = ops + 1
    /\ prevCall' = NoOp
    /\ UNCHANGED <<input, cur, now, gcInterval>>
    /\ UNCHANGED <<apiCredentials, usageStats, recordedCalls, calls, running>>

\* time passes
Tick ==
    /\ now < MaxTime
    /\ now' = now + 1
    /\ UNCHANGED <<input, cur, ops, cache, stats, last, prevCall, gcInterval>>
    /\ UNCHANGED <<apiCredentials, usageStats, recordedCalls, calls, running>>

\* validatorService.validateRtlcssOptions(options): the function keeps no
\* state, so each behaviour applies it once
ValidateRtlcssOptions(options) ==
    /\ ops = 0
    /\ LET r == validateRtlcssOptions(options)
       IN last' = [Ran("validateRtlcssOptions") EXCEPT
                     !.opts = options, !.err = r.err, !.msg = r.option,
                     !.ret = r.ret]
    /\ prevCall' = NoOp
    /\ ops' = ops + 1
    /\ UNCHANGED <<input, cur, cache, stats, now, gcInterval>>
    /\ UNCHANGED <<apiCredentials, usageStats, recordedCalls, calls, running>>

\* crypto.isTimestampValid(timestamp)
IsTimestampValid(timestamp) ==
    /\ last' = [Ran("isTimestampValid") EXCEPT
                  !.value = <<timestamp>>,
                  !.ret = <<isTimestampValid(timestamp, DateNow(now))>>]
    /\ prevCall' = NoOp
    /\ UNCHANGED <<input, cur, ops, cache, stats, now, gcInterval,
                   apiCredentials, usageStats, recordedCalls, calls, running>>

\* authService.createApiCredentials(): uuidv4 is taken never to hand out a
\* key twice
CreateApiCredentials(apiKey, apiSecret) ==
    /\ ops < MaxOps
    /\ ~Has(apiCredentials, apiKey)
    /\ apiCredentials' =
           createApiCredentials(apiCredentials, apiKey, apiSecret, now)
    /\ last' = [Ran("createApiCredentials") EXCEPT
                  !.key = apiKey, !.ret = <<apiSecret>>]
    /\ prevCall' = NoOp
    /\ ops' = ops + 1
    /\ UNCHANGED <<input, cur, cache, stats, now, gcInterval, usageStats,
                   recordedCalls, calls, running>>

\* authService.getApiSecret(apiKey)
GetApiSecret(apiKey) ==
    /\ ops < MaxOps
    /\ LET r == getApiSecret(apiCredentials, apiKey, now)
       IN /\ apiCredentials' = r.apiCredentials
          /\ last' = [Ran("getApiSecret") EXCEPT !.key = apiKey, !.ret = r.ret]
    /\ prevCall' = NoOp
    /\ ops' = ops + 1
    /\ UNCHANGED <<input, cur, cache, stats, now, gcInterval, usageStats,
                   recordedCalls, calls, running>>

\* authService.verifyApiKey(apiKey)
VerifyApiKey(apiKey) ==
    /\ ops < MaxOps
    /\ last' = [Ran("verifyApiKey") EXCEPT
                  !.key = apiKey, !.ret = verifyApiKey(apiCredentials, apiKey)]
    /\ prevCall' = NoOp
    /\ ops' = ops + 1
    /\ UNCHANGED <<input, cur, cache, stats, now, gcInterval, apiCredentials,
                   usageStats, recordedCalls, calls, running>>

\* authService.disableApiKey(apiKey)
DisableApiKey(apiKey) ==
    /\ ops < MaxOps
    /\ LET r == disableApiKey(apiCredentials, apiKey)
       IN /\ apiCredentials' = r.apiCredentials
          /\ last' = [Ran("disableApiKey") EXCEPT !.key = apiKey, !.ret = r.ret]
    /\ prevCall' = NoOp
    /\ ops' = ops + 1
    /\ UNCHANGED <<input, cur, cache, stats, now, gcInterval, usageStats,
                   recordedCalls, calls, running>>

\* authService.getAllApiKeys()
GetAllApiKeys ==
    /\ ops < MaxOps
    /\ last' = [Ran("getAllApiKeys") EXCEPT
                  !.ret = getAllApiKeys(apiCredentials)]
    /\ prevCall' = NoOp
    /\ ops' = ops + 1
    /\ UNCHANGED <<input, cur, cache, stats, now, gcInterval, apiCredentials,
                   usageStats, recordedCalls, calls, running>>

\* the state a convert route leaves behind with its response
Responded(op, req, r) ==
    /\ apiCredentials' = r.apiCredentials
    /\ cache' = r.cache
    /\ stats' = r.stats
    /\ usageStats' = r.usageStats
    /\ recordedCalls' = recordedCalls \o r.rec
    /\ last' = [Ran("POST " \o RoutePath(op)) EXCEPT
                  !.req = <<req>>, !.css = req.css, !.opts = req.options,
                  !.apiKey = r.apiKey, !.next = r.next,
                  !.status = r.res.status, !.err = r.res.code,
                  !.ret = r.res.data, !.rec = r.rec]

\* a POST to one of the convert routes, from the first middleware to the
\* response
PostConvert(op, req) ==
    /\ ops < MaxCalls
    /\ Responded(op, req,
                 convertRoute(apiCredentials, cache, stats, usageStats, req,
                              now, 0, op))
    /\ prevCall' = NoOp
    /\ ops' = ops + 1
    /\ UNCHANGED <<input, cur, now, gcInterval, calls, running>>

PostLtrToRtl(req) == PostConvert("ltrToRtl", req)

PostRtlToLtr(req) == PostConvert("rtlToLtr", req)

\* an admin route has answered; the handler leaves what it does not name
Answered(route, adminToken, key, res) ==
    /\ last' = [Ran(route) EXCEPT !.value = <<adminToken>>, !.key = key,
                                  !.status = res.status, !.err = res.code,
                                  !.ret = res.data]
    /\ prevCall' = NoOp
    /\ ops' = ops + 1
    /\ UNCHANGED <<input, cur, stats, now, gcInterval, usageStats,
                   recordedCalls, calls, running>>

Ok(data) == [status |-> 200, code |-> "", data |-> <<data>>]

\* GET /api/admin/metrics
AdminMetrics(adminToken) ==
    /\ ops < MaxOps
    /\ Answered("GET /metrics", adminToken, "",
                IF adminGate(adminToken) # NoError
                THEN errorMiddleware(adminGate(adminToken))
                ELSE Ok(getStats(cache, stats)))
    /\ UNCHANGED <<cache, apiCredentials>>

\* GET /api/admin/api-keys
AdminListApiKeys(adminToken) ==
    /\ ops < MaxOps
    /\ Answered("GET /api-keys", adminToken, "",
                IF adminGate(adminToken) # NoError
                THEN errorMiddleware(adminGate(adminToken))
                ELSE Ok(getAllApiKeys(apiCredentials)))
    /\ UNCHANGED <<cache, apiCredentials>>

\* POST /api/admin/api-keys
AdminCreateApiKey(adminToken, apiKey, apiSecret) ==
    /\ ops < MaxOps
    /\ ~Has(apiCredentials, apiKey)
    /\ IF adminGate(adminToken) # NoError
       THEN /\ Answered("POST /api-keys", adminToken, "",
                        errorMiddleware(adminGate(adminToken)))
            /\ UNCHANGED apiCredentials
       ELSE /\ Answered("POST /api-keys", adminToken, apiKey,
                        Ok([apiKey |-> apiKey, apiSecret |-> apiSecret]))
            /\ apiCredentials' =
                   createApiCredentials(apiCredentials, apiKey, apiSecret, now)
    /\ UNCHANGED cache

\* POST /api/admin/api-keys/:apiKey/disable
AdminDisableApiKey(adminToken, apiKey) ==
    /\ ops < MaxOps
    /\ IF adminGate(adminToken) # NoError
       THEN /\ Answered("POST /api-keys/:apiKey/disable", adminToken, apiKey,
                        errorMiddleware(adminGate(adminToken)))
            /\ UNCHANGED apiCredentials
       ELSE LET r == disableApiKey(apiCredentials, apiKey)
            IN /\ apiCredentials' = r.apiCredentials
               /\ Answered("POST /api-keys/:apiKey/disable", adminToken,
                           apiKey,
                           IF r.ret = <<FALSE>>
                           THEN errorMiddleware(
                                    validationError("API key not found",
                                                    "API_KEY_NOT_FOUND"))
                           ELSE Ok([apiKey |-> apiKey, status |-> "disabled"]))
    /\ UNCHANGED cache

\* GET /api/admin/stats/usage
AdminUsage(adminToken) ==
    /\ ops < MaxOps
    /\ Answered("GET /stats/usage", adminToken, "",
                IF adminGate(adminToken) # NoError
                THEN errorMiddleware(adminGate(adminToken))
                ELSE Ok(getAggregateStats(usageStats)))
    /\ UNCHANGED <<cache, apiCredentials>>

\* GET /api/admin/stats/api-key/:apiKey
AdminKeyUsage(adminToken, apiKey) ==
    /\ ops < MaxOps
    /\ Answered("GET /stats/api-key/:apiKey", adminToken, apiKey,
                IF adminGate(adminToken) # NoError
                THEN errorMiddleware(adminGate(adminToken))
                ELSE IF verifyApiKey(apiCredentials, apiKey) # <<TRUE>>
                THEN errorMiddleware(validationError("API key not found",
                                                     "API_KEY_NOT_FOUND"))
                ELSE Ok(getUsageStats(usageStats, apiKey)))
    /\ UNCHANGED <<cache, apiCredentials>>

\* POST /api/admin/cache/clear
AdminCacheClear(adminToken) ==
    /\ ops < MaxOps
    /\ IF adminGate(adminToken) # NoError
       THEN /\ Answered("POST /cache/clear", adminToken, "",
                        errorMiddleware(adminGate(adminToken)))
            /\ UNCHANGED cache
       ELSE /\ Answered("POST /cache/clear", adminToken, "",
                        Ok(getStats(<<>>, stats)))
            /\ cache' = <<>>
    /\ UNCHANGED apiCredentials

\* GET /api/admin/logs
AdminLogs(adminToken) ==
    /\ ops < MaxOps
    /\ Answered("GET /logs", adminToken, "",
                IF adminGate(adminToken) # NoError
                THEN errorMiddleware(adminGate(adminToken))
                ELSE Ok([message |-> "logs"]))
    /\ UNCHANGED <<cache, apiCredentials>>

\* the usage record a call makes on its way to the await
RecordFor(call, result, ms) ==
    LET rec == Recorded(call.apiKey, "ltr_to_rtl", result, ms)
    IN /\ usageStats' = Served([rec |-> rec, cache |-> cache, stats |-> stats,
                                key |-> ""], usageStats, now).usageStats
       /\ recordedCalls' = recordedCalls \o rec

\* ltrToRtl({css, rtlcssOptions, apiKey}) is invoked while the thread is
\* free: the call runs up to cacheService.get and, on a hit, on to its await
\* or return
InvokeLtrToRtl(css, rtlcssOptions, apiKey) ==
    /\ running = 0
    /\ Len(calls) < MaxConc
    /\ LET p == Len(calls) + 1
           call == NewCall(css, rtlcssOptions, apiKey)
           looked == get(cache, stats, ltrToRtlKey(css, rtlcssOptions), now)
           after == IF ~ValidCss(css)
                    THEN [call EXCEPT !.pc = "threw", !.err = "INVALID_CSS"]
                    ELSE IF looked.ret # <<>>
                    THEN Finish(call, looked.ret[1], TRUE)
                    ELSE [call EXCEPT !.pc = "looked"]
       IN /\ calls' = Append(calls, after)
          /\ running' = Holder(p, after.pc)
          /\ IF ValidCss(css)
             THEN cache' = looked.cache /\ stats' = looked.stats
             ELSE UNCHANGED <<cache, stats>>
          /\ IF ValidCss(css) /\ looked.ret # <<>>
             THEN RecordFor(call, looked.ret[1], 0)
             ELSE UNCHANGED <<usageStats, recordedCalls>>
    /\ UNCHANGED <<input, cur, ops, now, last, prevCall, gcInterval,
                   apiCredentials>>

\* call p goes on from the lookup to rtlcss.process
Transform(p) ==
    /\ p \in DOMAIN calls
    /\ running \in {0, p}
    /\ calls[p].pc = "looked"
    /\ LET call == calls[p]
           result == Result(rtlcss_process(call.css, MergeOptions(call.opts)),
                            byteLength(call.css), 0)
           after == IF process_throws(call.css)
                    THEN [call EXCEPT !.pc = "threw",
                                      !.err = "CONVERSION_ERROR"]
                    ELSE [call EXCEPT !.pc = "transformed",
                                      !.result = <<result>>]
       IN /\ calls' = [calls EXCEPT ![p] = after]
          /\ running' = Holder(p, after.pc)
    /\ UNCHANGED <<input, cur, ops, cache, stats, now, last, prevCall,
                   gcInterval, apiCredentials, usageStats, recordedCalls>>

\* call p goes on from rtlcss.process to cacheService.set and to its await
\* or return
Store(p) ==
    /\ p \in DOMAIN calls
    /\ running \in {0, p}
    /\ calls[p].pc = "transformed"
    /\ LET call == calls[p]
           stored == set(cache, stats, ltrToRtlKey(call.css, call.opts),
                         call.result[1], defaultTtl, now)
           after == Finish(call, call.result[1], FALSE)
       IN /\ cache' = stored.cache
          /\ stats' = stored.stats
          /\ calls' = [calls EXCEPT ![p] = after]
          /\ running' = Holder(p, after.pc)
          /\ RecordFor(call, call.result[1], 0)
    /\ UNCHANGED <<input, cur, ops, now, last, prevCall, gcInterval,
                   apiCredentials>>

\* the await of call p is over: the call returns its result
Resume(p) ==
    /\ p \in DOMAIN calls
    /\ running = 0
    /\ calls[p].pc = "awaiting"
    /\ calls' = [calls EXCEPT ![p].pc = "returned"]
    /\ UNCHANGED <<input, cur, ops, cache, stats, now, last, prevCall,
                   gcInterval, apiCredentials, usageStats, recordedCalls,
                   running>>

\* statsService.recordConversion(data), called directly
RecordConversion(data) ==
    /\ ops < MaxRecords
    /\ LET r == recordConversion(usageStats, data, now)
       IN /\ usageStats' = r.usageStats
          /\ last' = [Ran("recordConversion") EXCEPT
                        !.apiKey = data.apiKey, !.rec = <<data>>,
                        !.err = IF r.threw THEN "rejected" ELSE ""]
    /\ recordedCalls' = Append(recordedCalls, data)
    /\ prevCall' = NoOp
    /\ ops' = ops + 1
    /\ UNCHANGED <<input, cur, cache, stats, now, gcInterval, apiCredentials,
                   calls, running>>

\* the caller of the last ltrToRtl call writes to the result object it got:
\* set stored that very object (cache.js:68, validator.js:195) and get hands
\* out the stored one (cache.js:105, validator.js:171), so the write lands in
\* the entry under the call's key
MutateResult ==
    /\ ops < MaxOps
    /\ last.op = "ltrToRtl" /\ last.err = "" /\ last.ret # <<>>
    /\ Has(cache, last.key)
    /\ cache' = [j \in DOMAIN cache |->
                    IF cache[j].key = last.key
                    THEN [cache[j] EXCEPT !.value.converted = <<"overwritten">>]
                    ELSE cache[j]]
    /\ last' = [Ran("mutate") EXCEPT !.key = last.key]
    /\ prevCall' = NoOp
    /\ ops' = ops + 1
    /\ UNCHANGED <<input, cur, stats, now, gcInterval>>
    /\ UNCHANGED <<apiCredentials, usageStats, recordedCalls, calls, running>>

\* the first steps of ltrToRtl up to the cache key, for a request whose
\* options are still objects
CacheKeyOf(css, o) ==
    /\ ops < MaxCalls
    /\ last' = [Ran("cacheKey") EXCEPT !.css = css, !.opts = o,
                                       !.key = ltrToRtlKey(css, Flatten(o))]
    /\ prevCall' = IF last.op = "cacheKey" THEN last ELSE NoOp
    /\ ops' = ops + 1
    /\ UNCHANGED <<input, cur, cache, stats, now, gcInterval>>
    /\ UNCHANGED <<apiCredentials, usageStats, recordedCalls, calls, running>>

\* the gcInterval timer fires: setInterval keeps calling the sweep, whatever
\* the requests do, until shutdown clears it
GcTimer ==
    /\ gcInterval
    /\ LET r == runGarbageCollection(cache, stats, now)
       IN /\ cache' = r.cache
          /\ stats' = r.stats
    /\ last' = Ran("gc")
    /\ prevCall' = NoOp
    /\ UNCHANGED <<input, cur, ops, now, gcInterval>>
    /\ UNCHANGED <<apiCredentials, usageStats, recordedCalls, calls, running>>

\* cacheService.shutdown()
Shutdown ==
    /\ gcInterval
    /\ gcInterval' = FALSE
    /\ last' = Ran("shutdown")
    /\ prevCall' = NoOp
    /\ UNCHANGED <<input, cur, ops, now, cache, stats>>
    /\ UNCHANGED <<apiCredentials, usageStats, recordedCalls, calls, running>>

\* one conversion call; r is what ltrToRtl or rtlToLtr did up to its
\* `await statsService.recordConversion(...)`.  The recorder runs on the
\* usage Map; were its promise to reject, the await would throw inside the
\* try block and the catch block would turn that into the call's error.
Call(op, r, css, rtlcssOptions, apiKey) ==
    LET served == Served(r, usageStats, now)
        out == served.out
    IN /\ cache' = out.cache
       /\ stats' = out.stats
       /\ usageStats' = served.usageStats
       /\ recordedCalls' = recordedCalls \o r.rec
       /\ last' = [Ran(op) EXCEPT !.css = css, !.opts = rtlcssOptions,
                                  !.apiKey = apiKey, !.key = out.key,
                                  !.err = out.err, !.msg = out.msg,
                                  !.ret = out.ret, !.rec = out.rec]
       /\ prevCall' = IF IsCall(last) THEN last ELSE NoOp
       /\ ops' = ops + 1
       /\ UNCHANGED <<now, gcInterval, apiCredentials, calls, running>>

CallLtrToRtl(css, rtlcssOptions, apiKey, ms) ==
    /\ ops < MaxOps
    /\ Call("ltrToRtl",
            ltrToRtl(cache, stats, css, rtlcssOptions, apiKey, now, ms),
            css, rtlcssOptions, apiKey)
    /\ UNCHANGED <<input, cur>>

CallRtlToLtr(css, rtlcssOptions, apiKey, ms) ==
    /\ ops < MaxOps
    /\ Call("rtlToLtr",
            rtlToLtr(cache, stats, css, rtlcssOptions, apiKey, now, ms),
            css, rtlcssOptions, apiKey)
    /\ UNCHANGED <<input, cur>>

\* the service called directly, as a library
DirectLtrToRtl(css, rtlcssOptions, apiKey) ==
    /\ ops < MaxCalls
    /\ Call("ltrToRtl",
            ltrToRtl(cache, stats, css, rtlcssOptions, apiKey, now, 0),
            css, rtlcssOptions, apiKey)
    /\ UNCHANGED <<input, cur>>

DirectRtlToLtr(css, rtlcssOptions, apiKey) ==
    /\ ops < MaxCalls
    /\ Call("rtlToLtr",
            rtlToLtr(cache, stats, css, rtlcssOptions, apiKey, now, 0),
            css, rtlcssOptions, apiKey)
    /\ UNCHANGED <<input, cur>>

\* SpecConv: the text the previous call returned is converted again; the
\* chained calls report a processing time of 0 ms
ChainLtrToRtl ==
    /\ ops < MaxCalls
    /\ LET r == ltrToRtl(cache, stats, cur, <<>>, Undefined, now, 0)
       IN /\ Call("ltrToRtl", r, cur, <<>>, Undefined)
          /\ cur' = r.ret[1].converted
    /\ UNCHANGED input

ChainRtlToLtr ==
    /\ ops < MaxCalls
    /\ LET r == rtlToLtr(cache, stats, cur, <<>>, Undefined, now, 0)
       IN /\ Call("rtlToLtr", r, cur, <<>>, Undefined)
          /\ cur' = r.ret[1].converted
    /\ UNCHANGED input

\* the cache service under arbitrary keys and ttls
Next ==
    \/ \E key \in Keys, value \in Values, ttl \in Ttls : Set(key, value, ttl)
    \/ \E key \in Keys : Get(key)
    \/ \E key \in Keys : Delete(key)
    \/ Clear
    \/ RunGarbageCollection
    \/ Tick

Spec == Init /\ [][Next]_vars

\* the conversion service with its cache
NextDriver ==
    \/ \E css \in DriverCss, o \in DriverOptions, ms \in 0..MaxProcMs :
          CallLtrToRtl(css, o, Undefined, ms)
    \/ \E css \in DriverCss, o \in DriverOptions, ms \in 0..MaxProcMs :
          CallRtlToLtr(css, o, Undefined, ms)
    \/ Clear
    \/ RunGarbageCollection
    \/ Tick

SpecDriver == Init /\ [][NextDriver]_vars

\* conversions of generated style sheets, chained
NextConv ==
    \/ ChainLtrToRtl
    \/ ChainRtlToLtr

SpecConv == InitConv /\ [][NextConv]_vars

\* the validator on any options
NextValidator == \E options \in ValidatorInputs : ValidateRtlcssOptions(options)

SpecValidator == Init /\ [][NextValidator]_vars

\* the conversion service called directly with any argument
NextApi ==
    \/ \E css \in ApiCss, o \in ApiOptions, k \in ApiKeys :
          DirectLtrToRtl(css, o, k)
    \/ \E css \in ApiCss, o \in ApiOptions, k \in ApiKeys :
          DirectRtlToLtr(css, o, k)

SpecApi == Init /\ [][NextApi]_vars

\* ltrToRtl and callers that write to the results they were handed
NextCaller ==
    \/ \E css \in DriverCss \ {<<>>}, o \in DriverOptions :
          CallLtrToRtl(css, o, Undefined, 0)
    \/ MutateResult
    \/ Tick

SpecCaller == Init /\ [][NextCaller]_vars

\* the cache keys of ltrToRtl requests
NextKey ==
    \E css \in DriverCss \ {<<>>}, o \in KeyOptions : CacheKeyOf(css, o)

SpecKey == Init /\ [][NextKey]_vars

\* the convert routes behind the auth middleware, with keys being created
\* and disabled
NextHttp ==
    \/ \E k \in UuidPool, secret \in SecretPool : CreateApiCredentials(k, secret)
    \/ \E k \in UuidPool : DisableApiKey(k)
    \/ \E req \in HeaderProbes(now, RoutePath("ltrToRtl"))
                  \cup BodyProbes(apiCredentials, now, RoutePath("ltrToRtl")) :
          PostLtrToRtl(req)
    \/ \E req \in HeaderProbes(now, RoutePath("rtlToLtr"))
                  \cup BodyProbes(apiCredentials, now, RoutePath("rtlToLtr")) :
          PostRtlToLtr(req)

SpecHttp == Init /\ [][NextHttp]_vars

\* the admin router on a cache that is being filled
NextAdmin ==
    \/ \E key \in GcKeys, ttl \in Ttls : Set(key, Value("v1"), ttl)
    \/ \E token \in AdminTokens : AdminMetrics(token)
    \/ \E token \in AdminTokens : AdminListApiKeys(token)
    \/ \E token \in AdminTokens, k \in UuidPool, secret \in SecretPool :
          AdminCreateApiKey(token, k, secret)
    \/ \E token \in AdminTokens, k \in LookupKeys :
          AdminDisableApiKey(token, k)
    \/ \E token \in AdminTokens : AdminUsage(token)
    \/ \E token \in AdminTokens, k \in LookupKeys : AdminKeyUsage(token, k)
    \/ \E token \in AdminTokens : AdminCacheClear(token)
    \/ \E token \in AdminTokens : AdminLogs(token)

SpecAdmin == Init /\ [][NextAdmin]_vars

\* concurrent ltrToRtl calls on the event loop
NextConc ==
    \/ \E css \in ConcCss, k \in ConcKeys : InvokeLtrToRtl(css, <<>>, k)
    \/ \E p \in 1..MaxConc : Transform(p)
    \/ \E p \in 1..MaxConc : Store(p)
    \/ \E p \in 1..MaxConc : Resume(p)

SpecConc == Init /\ [][NextConc]_vars

\* the timestamp check at any time of the clock
NextTimestamp ==
    \/ \E d \in TimestampOffsets : IsTimestampValid(DateNow(now) + d)
    \/ Tick

SpecTimestamp == Init /\ [][NextTimestamp]_vars

\* the auth service under any sequence of its operations
NextAuth ==
    \/ \E k \in UuidPool, secret \in SecretPool : CreateApiCredentials(k, secret)
    \/ \E k \in LookupKeys : GetApiSecret(k)
    \/ \E k \in LookupKeys : VerifyApiKey(k)
    \/ \E k \in LookupKeys : DisableApiKey(k)
    \/ GetAllApiKeys
    \/ Tick

SpecAuth == Init /\ [][NextAuth]_vars

\* the usage recorder, called directly and by the conversions
NextStats ==
    \/ \E data \in RecordInputs : RecordConversion(data)
    \/ \E css \in StatsCss, k \in {Undefined, "k1"} :
          DirectLtrToRtl(css, <<>>, k)
    \/ \E css \in StatsCss, k \in {Undefined, "k1"} :
          DirectRtlToLtr(css, <<>>, k)

SpecStats == Init /\ [][NextStats]_vars

\* the cache with its sweep timer: entries are stored and looked up, time
\* passes, the timer fires again and again until shutdown
NextGC ==
    \/ \E key \in GcKeys, ttl \in Ttls : Set(key, Value("v1"), ttl)
    \/ \E key \in GcKeys : Get(key)
    \/ Tick
    \/ GcTimer
    \/ Shutdown

SpecGC == Init /\ [][NextGC]_vars /\ WF_vars(GcTimer)

----------------------------------------------------------------------------
(* Properties of the conversions (SpecConv) *)

\* the text the last conversion call returned
Converted == last.ret[1].converted
Succeeded(o) == IsCall(o) /\ o.err = "" /\ o.ret # <<>>

HasDirective(text) == \E j \in DOMAIN text : text[j] \in Directives
HasRemove(text) == \E j \in DOMAIN text : text[j] = "/*rtl:remove*/"

\* <<property, value>> of every declaration, in order
PropVals(text) ==
    LET ds == DeclsOf(text) IN [j \in DOMAIN ds |-> <<ds[j].prop, ds[j].val>>]

BoxProps == { <<b, "-", sd>> : b \in {"margin", "padding", "border"},
                               sd \in {"left", "right"} }

\* the mirror image the claims name for a declaration
Mirrored(d) ==
    IF d.prop \in BoxProps
    THEN <<[j \in DOMAIN d.prop |-> SwapSide(d.prop[j])], d.val>>
    ELSE IF d.prop \in {<<"float">>, <<"text-align">>}
    THEN <<d.prop, [j \in DOMAIN d.val |-> SwapSide(d.val[j])]>>
    ELSE IF d.prop = <<"direction">>
    THEN <<d.prop, [j \in DOMAIN d.val |-> SwapDir(d.val[j])]>>
    ELSE <<d.prop, d.val>>

\* the declarations the mirroring claims are about
Directional(d, withDirection) ==
    \/ d.prop \in BoxProps
    \/ d.prop \in {<<"float">>, <<"text-align">>} /\ d.val \in {<<"left">>, <<"right">>}
    \/ withDirection /\ d.prop = <<"direction">>

\* every directional declaration of the call's input that no directive span
\* holds is mirrored in the output, at the same place
MirrorsOnce(o, withDirection) ==
    LET in == DeclsOf(o.css)
        out == PropVals(o.ret[1].converted)
    IN /\ Len(out) = Len(in)
       /\ \A j \in DOMAIN in :
            (in[j].mode = "transform" /\ Directional(in[j], withDirection))
                => out[j] = Mirrored(in[j])

\* C1: a style sheet without directives converted by ltrToRtl and then by
\* rtlToLtr, or by rtlToLtr and then by ltrToRtl, comes back with the
\* declarations it had (whitespace aside).
C1_RoundTrip ==
    (/\ ops = 2
     /\ Succeeded(prevCall) /\ Succeeded(last)
     /\ prevCall.op # last.op
     /\ prevCall.css = input /\ last.css = prevCall.ret[1].converted
     /\ ~HasDirective(input))
        => PropVals(cur) = PropVals(input)

\* C2: rtlToLtr mirrors every directional declaration of its input exactly
\* once: margin/padding/border -left and -right are exchanged, the values
\* left and right of text-align and float are exchanged, direction rtl and ltr
\* are exchanged.
C2_RtlToLtrMirrors ==
    (last.op = "rtlToLtr" /\ Succeeded(last) /\ ~HasDirective(last.css))
        => MirrorsOnce(last, TRUE)

\* C3: ltrToRtl mirrors every directional declaration of its input exactly
\* once: a *-left property becomes the *-right property and vice versa with
\* its value unchanged, and the values left and right of text-align and float
\* are exchanged.  (A declaration inside a directive span is the directive's
\* to decide; a removed one shifts the places, so sheets with a remove span
\* are left to the directive's own claim.)
C3_LtrToRtlMirrors ==
    (last.op = "ltrToRtl" /\ Succeeded(last) /\ ~HasRemove(last.css))
        => MirrorsOnce(last, FALSE)

\* C3 witness: ltrToRtl has turned a margin-left into margin-right and a
\* float: right that follows it into float: left
C3_Witness ==
    /\ last.op = "ltrToRtl" /\ Succeeded(last) /\ ~HasDirective(last.css)
    /\ PropVals(last.css) = << <<<<"margin", "-", "left">>, <<"10px">>>>,
                               <<<<"float">>, <<"right">>>> >>
    /\ PropVals(Converted) = << <<<<"margin", "-", "right">>, <<"10px">>>>,
                                <<<<"float">>, <<"left">>>> >>

\* C4: a declaration between an rtl:ignore marker and its rtl:end marker has
\* the same property and the same value in the output of ltrToRtl and of
\* rtlToLtr.
C4_IgnoreUnchanged ==
    (Succeeded(last) /\ ~HasRemove(last.css))
        => LET in == DeclsOf(last.css)
               out == PropVals(Converted)
           IN \A j \in DOMAIN in :
                in[j].mode = "ignore"
                    => j \in DOMAIN out /\ out[j] = <<in[j].prop, in[j].val>>

\* C5: neither direction rewrites a selector or an at-rule prelude: the
\* selector of the output is the selector of the input.
C5_SelectorsUntouched ==
    Succeeded(last) => SelectorOf(Converted) = SelectorOf(last.css)

----------------------------------------------------------------------------
(* Properties of the cache under the conversion service (SpecDriver) *)

\* the last call was the second of two successful calls in a row with the
\* same direction, css and options; the first one computed its result and the
\* second one ran within the TTL of that computation.  No clear, sweep or
\* eviction ran in between: any of them would have replaced `last`.
SameCallTwice ==
    /\ Succeeded(prevCall) /\ Succeeded(last)
    /\ last.op = prevCall.op
    /\ last.css = prevCall.css
    /\ last.opts = prevCall.opts
    /\ last.statsBefore.hits = prevCall.statsBefore.hits
    /\ last.time <= prevCall.time + defaultTtl

\* the last call was answered from the cache
AnsweredFromCache ==
    Succeeded(last) /\ stats.hits = last.statsBefore.hits + 1

\* C6: in either direction, the second of two identical calls in a row within
\* the TTL raises the hits counter by exactly one and leaves misses alone.
C6_SecondCallHits ==
    SameCallTwice => /\ stats.hits = last.statsBefore.hits + 1
                     /\ stats.misses = last.statsBefore.misses

\* C7: a result answered from the cache reports processingTimeMs = 0, and the
\* originalSize and convertedSize of the computation that stored it.
C7_HitReportsZeroTime ==
    AnsweredFromCache
        => /\ last.ret[1].stats.processingTimeMs = 0
           /\ \E j \in DOMAIN last.before :
                /\ last.before[j].value.converted = last.ret[1].converted
                /\ last.before[j].value.stats.originalSize
                      = last.ret[1].stats.originalSize
                /\ last.before[j].value.stats.convertedSize
                      = last.ret[1].stats.convertedSize

----------------------------------------------------------------------------
(* Properties of the cache service (Spec) *)

KeySet(c) == {c[j].key : j \in DOMAIN c}

\* C8: after any sequence of set, get, delete, clear and sweep calls the cache
\* holds at most maxSize entries.
C8_SizeBounded == Len(cache) <= maxSize

\* C9: a set that finds the cache full removes exactly one entry before it
\* inserts, and no entry held at that moment expired earlier than that one.
C9_EvictsNearestExpiry ==
    (last.op = "set" /\ Len(last.before) >= maxSize)
        => \E j \in DOMAIN last.before :
             /\ \A k \in DOMAIN last.before :
                  last.before[j].expiresAt <= last.before[k].expiresAt
             /\ KeySet(cache)
                  = (KeySet(last.before) \ {last.before[j].key}) \cup {last.key}

Expired(o) ==
    /\ Has(o.before, o.key)
    /\ o.before[IndexOf(o.before, o.key)].expiresAt < o.time

\* C10: a get for a key whose entry expired before the current time returns
\* null and counts as a miss (misses + 1, hits unchanged), swept or not; a get
\* that returns a value returns one that has not expired.
C10_ExpiredIsMiss ==
    last.op = "get"
        => /\ Expired(last)
                => /\ last.ret = <<>>
                   /\ stats.misses = last.statsBefore.misses + 1
                   /\ stats.hits = last.statsBefore.hits
           /\ last.ret # <<>>
                => /\ Has(last.before, last.key)
                   /\ ~Expired(last)
                   /\ last.ret[1] = last.before[IndexOf(last.before, last.key)].value

\* C10 witness: a get has found an entry that expired and that no sweep has
\* removed
C10_Witness ==
    /\ last.op = "get" /\ Expired(last)
    /\ last.ret = <<>>
    /\ stats.misses = 1

\* C21: a set for a key the cache already holds leaves the set of keys as it
\* was, maps the key to the value just written and evicts nothing, also when
\* the cache is full.
C21_SetIdempotent ==
    (last.op = "set" /\ Has(last.before, last.key))
        => /\ KeySet(cache) = KeySet(last.before)
           /\ Has(cache, last.key)
           /\ cache[IndexOf(cache, last.key)].value = last.value[1]
           /\ stats.evicted = last.statsBefore.evicted

----------------------------------------------------------------------------
(* Properties of the sweep (SpecGC) *)

HoldsEntry(k, e) ==
    \E j \in DOMAIN cache : cache[j].key = k /\ cache[j].expiresAt = e

\* what a sweep at last.time leaves of the entries it found
SweptOnly ==
    last.op = "gc"
        => cache = SelectSeq(last.before, LAMBDA e : e.expiresAt >= last.time)

\* C11: an entry whose expiresAt has passed is eventually removed, accessed or
\* not, unless shutdown has stopped the timer; and a sweep removes the
\* entries whose expiresAt is earlier than the sweep time and leaves every
\* other entry as it was.
C11_SweepRemovesExpired ==
    /\ \A k \in GcKeys, e \in 0..(MaxTime + MaxTtl) :
          (HoldsEntry(k, e) /\ e < now) ~> (~HoldsEntry(k, e) \/ ~gcInterval)
    /\ []SweptOnly

\* C11 witness: a sweep has removed an expired entry nobody had looked up and
\* has kept an entry that expires exactly at the sweep time
C11_Witness ==
    /\ last.op = "gc" /\ gcInterval
    /\ stats.hits = 0 /\ stats.misses = 0
    /\ \E j \in DOMAIN last.before : last.before[j].expiresAt < last.time
    /\ \E j \in DOMAIN cache : cache[j].expiresAt = last.time
    /\ Len(cache) < Len(last.before)

----------------------------------------------------------------------------
(* Properties of the cache key (SpecKey) *)

\* option k of the request, order of members aside, the default if left out
Norm(o, k) ==
    IF k = "blacklist"
    THEN (IF HasKey(o, k) THEN Atoms(ValueOf(o, k)) ELSE {})
    ELSE IF k = "stringMap"
    THEN (IF HasKey(o, k)
          THEN [j \in DOMAIN ValueOf(o, k) |-> Atoms(ValueOf(o, k)[j])]
          ELSE <<>>)
    ELSE IF HasKey(o, k) THEN ValueOf(o, k) ELSE ValueOf(defaultOptions, k)

\* the two requests differ at most in the order of keys and in defaults
\* being spelled out
SameOptions(o1, o2) ==
    \A k \in {defaultOptions[j][1] : j \in DOMAIN defaultOptions} :
        Norm(o1, k) = Norm(o2, k)

\* C12: two ltrToRtl requests with the same css whose options differ only in
\* the order of keys (top level, inside blacklist, inside a stringMap entry)
\* or in a default being left out or spelled out get the same cache key.
C12_KeyNormalized ==
    (/\ last.op = "cacheKey" /\ prevCall.op = "cacheKey"
     /\ last.css = prevCall.css
     /\ SameOptions(prevCall.opts, last.opts))
        => last.key = prevCall.key

----------------------------------------------------------------------------
(* Properties of the results handed to callers (SpecCaller) *)

\* C13: whatever callers did to the result objects they were handed, an
\* ltrToRtl call returns the text computed for its css and options, with the
\* sizes of that computation.
C13_CallersGetCopies ==
    (last.op = "ltrToRtl" /\ Succeeded(last))
        => LET computed == rtlcss_process(last.css, MergeOptions(last.opts))
           IN /\ last.ret[1].converted = computed
              /\ last.ret[1].stats.originalSize = byteLength(last.css)
              /\ last.ret[1].stats.convertedSize = byteLength(computed)

----------------------------------------------------------------------------
(* Properties of the service called directly (SpecApi) *)

\* C14: css that is not a non-empty string (the empty string, null,
\* undefined, a number) is rejected with INVALID_CSS by both directions, and
\* the call leaves the cache entries and the cache counters as they were.
C14_InvalidCssRejected ==
    (IsCall(last) /\ (last.css = <<>> \/ last.css \in NotStrings))
        => /\ last.err = "INVALID_CSS"
           /\ last.ret = <<>>
           /\ cache = last.before
           /\ stats = last.statsBefore

\* C14 witness: ltrToRtl has rejected a number while the cache held an entry
C14_Witness ==
    /\ last.op = "ltrToRtl" /\ last.css = JsNumber("7")
    /\ last.err = "INVALID_CSS"
    /\ Len(cache) = 1 /\ stats.stored = 1 /\ stats.misses = 1

\* the transformation of the last call threw: its css passed the check and
\* rtlcss.process could not parse it
TransformThrew(o) == IsCall(o) /\ ValidCss(o.css) /\ process_throws(o.css)

SameRequest(o1, o2) ==
    o1.op = o2.op /\ o1.css = o2.css /\ o1.opts = o2.opts

\* C15: an ltrToRtl call whose transformation throws stores nothing: the
\* entries and the stored counter are those from before the call; the same
\* request made again is a miss again and returns no result.
C15_FailedNotCached ==
    (last.op = "ltrToRtl" /\ TransformThrew(last))
        => /\ last.ret = <<>>
           /\ cache = last.before
           /\ stats.stored = last.statsBefore.stored
           /\ (TransformThrew(prevCall) /\ SameRequest(prevCall, last))
                => /\ stats.misses = last.statsBefore.misses + 1
                   /\ stats.hits = last.statsBefore.hits

\* C15 witness: the same failing request has been made twice, each a miss
C15_Witness ==
    /\ last.op = "ltrToRtl" /\ TransformThrew(last)
    /\ TransformThrew(prevCall) /\ SameRequest(prevCall, last)
    /\ stats.misses = 2 /\ cache = <<>>

\* C16: when the transformation throws, the caller of ltrToRtl or rtlToLtr
\* gets the error CONVERSION_ERROR with the message 'Error processing CSS
\* conversion', never the message of the exception thrown.
C16_GenericConversionError ==
    TransformThrew(last)
        => /\ last.err = "CONVERSION_ERROR"
           /\ last.msg = "Error processing CSS conversion"
           /\ last.msg # CssSyntaxError.message

\* C16 witness: rtlToLtr has failed on a style sheet rtlcss.process cannot
\* parse
C16_Witness ==
    /\ last.op = "rtlToLtr" /\ TransformThrew(last)
    /\ last.err = "CONVERSION_ERROR"

RecognizedOptions == {defaultOptions[j][1] : j \in DOMAIN defaultOptions}

HasUnknownOption(o) == \E j \in DOMAIN o : o[j][1] \notin RecognizedOptions

\* C17: a direct call whose rtlcssOptions hold a key outside the eight
\* recognized options is rejected with an error.
C17_UnknownOptionRejected ==
    (IsCall(last) /\ ValidCss(last.css) /\ HasUnknownOption(last.opts))
        => last.err # "" /\ last.ret = <<>>

\* the UTF-8 size of a text: one byte per character and one more for each
\* character of two bytes
Utf8Size(text) ==
    Len(Text(text))
    + Cardinality({j \in DOMAIN text : text[j] \in TwoByteAtoms})

\* C19: a successful conversion, computed or answered from the cache, reports
\* the UTF-8 byte length of the caller's css as originalSize and the UTF-8
\* byte length of the converted text it returns as convertedSize.
C19_SizesAreByteLengths ==
    Succeeded(last)
        => /\ last.ret[1].stats.originalSize = Utf8Size(last.css)
           /\ last.ret[1].stats.convertedSize
                 = Utf8Size(last.ret[1].converted)

\* C19 witness: a result answered from the cache for a style sheet with a
\* two-byte character, whose converted text is one byte longer
C19_Witness ==
    /\ last.op = "ltrToRtl" /\ Succeeded(last)
    /\ stats.hits = 1
    /\ \E j \in DOMAIN last.css : last.css[j] \in TwoByteAtoms
    /\ last.ret[1].stats.originalSize = Len(Text(last.css)) + 1
    /\ last.ret[1].stats.convertedSize = last.ret[1].stats.originalSize + 1

\* an apiKey came with the call (the empty string counts as none)
Supplied(apiKey) == apiKey # Undefined /\ apiKey # ""

ConversionType(o) == IF o.op = "ltrToRtl" THEN "ltr_to_rtl" ELSE "rtl_to_ltr"

\* C20: a successful call with an apiKey has called
\* statsService.recordConversion exactly once, with that apiKey and the
\* conversion type of the call, on a miss and on a hit; a successful call
\* without an apiKey has not called it.
C20_RecordedOnce ==
    Succeeded(last)
        => IF Supplied(last.apiKey)
           THEN /\ Len(last.rec) = 1
                /\ last.rec[1].apiKey = last.apiKey
                /\ last.rec[1].conversionType = ConversionType(last)
           ELSE last.rec = <<>>

\* C20 witness: a call answered from the cache has recorded the conversion
\* for its apiKey
C20_Witness ==
    /\ last.op = "ltrToRtl" /\ Succeeded(last)
    /\ stats.hits = 1
    /\ last.apiKey = "k1"
    /\ Len(last.rec) = 1 /\ last.rec[1].apiKey = "k1"

----------------------------------------------------------------------------
(* Properties of the validator (SpecValidator) *)

WrongType(p) ==
    \/ p[1] \in {"autoRename", "autoRenameStrict", "clean", "greedy",
                  "processUrls", "useCalc"} /\ p[2] \notin {"true", "false"}
    \/ p[1] = "blacklist" /\ p[2] \notin PlainObjectJson
    \/ p[1] = "stringMap" /\ p[2] \notin ArrayJson

\* C18: validateRtlcssOptions throws INVALID_OPTIONS for a key outside the
\* eight allowed ones, or INVALID_OPTION_TYPE for a flag that is no boolean,
\* a blacklist that is no object or a stringMap that is no array, or it
\* returns an object with exactly the supplied keys and values (none for an
\* argument that is no object).
C18_NothingDropped ==
    last.op = "validateRtlcssOptions"
        => LET o == last.opts
           IN \/ /\ last.err = "INVALID_OPTIONS"
                 /\ o \notin Primitives /\ HasUnknownOption(o)
              \/ /\ last.err = "INVALID_OPTION_TYPE"
                 /\ o \notin Primitives
                 /\ \E j \in DOMAIN o : WrongType(o[j])
              \/ /\ last.err = ""
                 /\ Len(last.ret) = 1
                 /\ IF o \in Primitives THEN last.ret[1] = <<>>
                    ELSE /\ Len(last.ret[1]) = Len(o)
                         /\ Atoms(last.ret[1]) = Atoms(o)

\* C18 witness: two options came back, in the order the validator assigns
\* them and not the order they were supplied in
C18_Witness ==
    /\ last.op = "validateRtlcssOptions" /\ last.err = ""
    /\ last.opts = << <<"blacklist", "{'a':true}">>, <<"clean", "false">> >>
    /\ last.ret = << << <<"clean", "false">>, <<"blacklist", "{'a':true}">> >> >>

----------------------------------------------------------------------------
(* Properties of the usage recorder (SpecStats) *)

\* the transformation of the call did not throw
Transformed(o) ==
    /\ IsCall(o) /\ ValidCss(o.css)
    /\ ~process_throws(IF o.op = "rtlToLtr" THEN preprocessedCss(o.css)
                       ELSE o.css)

CallsFor(k) == SelectSeq(recordedCalls, LAMBDA d : d.apiKey = k)

Min(a, b) == IF a < b THEN a ELSE b

TwoTypes == {"ltr_to_rtl", "rtl_to_ltr"}

\* C28: for every API key the history holds at most historyLimit entries,
\* these are the latest conversions recorded for the key, newest first, and
\* totalConversions counts every recorded conversion; it is the sum of the
\* two per-type counts when no other type was recorded.
C28_HistoryBounded ==
    \A i \in DOMAIN usageStats :
        LET st == usageStats[i].value
            log == CallsFor(usageStats[i].key)
            n == Len(log)
        IN /\ Len(st.history) = Min(n, historyLimit)
           /\ \A j \in DOMAIN st.history :
                 /\ st.history[j].conversionType = log[n + 1 - j].conversionType
                 /\ st.history[j].originalSize = log[n + 1 - j].originalSize
                 /\ st.history[j].convertedSize = log[n + 1 - j].convertedSize
           /\ st.totalConversions = n
           /\ (\A j \in DOMAIN log : log[j].conversionType \in TwoTypes)
                 => st.totalConversions
                      = ValueOf(st.conversionsByType, "ltr_to_rtl")
                        + ValueOf(st.conversionsByType, "rtl_to_ltr")

\* C28 witness: more conversions than the history holds were recorded for an
\* API key, of both types, and the oldest one has left the history
C28_Witness ==
    \E i \in DOMAIN usageStats :
        LET st == usageStats[i].value
            log == CallsFor(usageStats[i].key)
        IN /\ Len(log) > historyLimit
           /\ Len(st.history) = historyLimit
           /\ log[1].conversionType = "rtl_to_ltr"
           /\ \A j \in 2..Len(log) : log[j].conversionType = "ltr_to_rtl"
           /\ ValueOf(st.conversionsByType, "rtl_to_ltr") = 1
           /\ \A j \in DOMAIN st.history :
                 st.history[j].conversionType = "ltr_to_rtl"

----------------------------------------------------------------------------
(* Properties of the auth service (SpecAuth) *)

Disabled(creds, k) == Has(creds, k) /\ ~creds[IndexOf(creds, k)].enabled

\* C26: a key that disableApiKey has disabled stays disabled under every
\* operation of the auth service; getApiSecret returns null for it and
\* verifyApiKey returns false for it; verifyApiKey also returns the boolean
\* false for a key that was never created.
C26_DisabledForGood ==
    /\ [][\A k \in LookupKeys :
            Disabled(apiCredentials, k) => Disabled(apiCredentials', k)]_vars
    /\ [](last.op = "disableApiKey" /\ last.ret = <<TRUE>>
            => Disabled(apiCredentials, last.key))
    /\ [](last.op = "getApiSecret" /\ Disabled(apiCredentials, last.key)
            => last.ret = <<>>)
    /\ [](last.op = "verifyApiKey"
            /\ (Disabled(apiCredentials, last.key)
                \/ ~Has(apiCredentials, last.key))
            => last.ret = <<FALSE>>)

----------------------------------------------------------------------------
(* Properties of the timestamp check (SpecTimestamp) *)

FiveMinutes == 5 * 60 * 1000

\* C25: isTimestampValid accepts a timestamp exactly when it lies less than
\* 5 minutes from the server's clock, before or after it; a timestamp 10
\* minutes old or 10 minutes ahead is rejected.
C25_FiveMinuteWindow ==
    last.op = "isTimestampValid"
        => (last.ret = <<TRUE>>
              <=> Abs(DateNow(last.time) - last.value[1]) < FiveMinutes)

----------------------------------------------------------------------------
(* Properties of the convert routes (SpecHttp) *)

IsPost(o) == o.op \in {"POST /ltr-to-rtl", "POST /rtl-to-ltr"}

\* the auth middleware let the request through
Authenticated(o) == IsPost(o) /\ o.next = <<NoError>>

\* C23: an authenticated conversion request, sent without options, whose
\* body holds a css that is not valid CSS (unbalanced braces, no declaration,
\* no string) gets status 422 with the code INVALID_CSS, no 500 and no
\* converted result.
C23_InvalidCssIs422 ==
    (/\ Authenticated(last) /\ NoOptions(last.opts)
     /\ ~Falsy(last.css) /\ ~validateCss(last.css))
        => /\ last.status = 422
           /\ last.err = "INVALID_CSS"
           /\ last.ret = <<>>

\* the three headers came with the request
HeadersPresent(req) ==
    /\ Truthy(req.apiKey)
    /\ req.timestamp # NoHeader
    /\ req.signature # NoSignature

\* X-Timestamp parses as a number inside the window the server accepts
TimestampAccepted(req, t) ==
    /\ parseInt(req.timestamp) # <<>>
    /\ Abs(DateNow(t) - parseInt(req.timestamp)[1]) < requestTimeout * 1000

\* the key of the request is in the store and enabled
KeyEnabled(req) ==
    /\ Has(apiCredentials, req.apiKey)
    /\ apiCredentials[IndexOf(apiCredentials, req.apiKey)].enabled

\* X-Signature is the HMAC of path|method|timestamp under the key's secret
SignatureMatches(req) ==
    req.signature =
        createSignature(Payload(req.path, req.method, req.timestamp),
                        apiCredentials[IndexOf(apiCredentials, req.apiKey)].secret)

\* C24: a request with the three headers, a timestamp in the window and an
\* enabled key whose X-Signature is not the HMAC of path|method|timestamp
\* under the key's secret, of whatever length, gets status 401 with the code
\* INVALID_SIGNATURE.
C24_WrongSignatureRejected ==
    (/\ IsPost(last)
     /\ HeadersPresent(last.req[1])
     /\ TimestampAccepted(last.req[1], last.time)
     /\ KeyEnabled(last.req[1])
     /\ ~SignatureMatches(last.req[1]))
        => last.status = 401 /\ last.err = "INVALID_SIGNATURE"

Authentic(req, t) ==
    /\ HeadersPresent(req)
    /\ TimestampAccepted(req, t)
    /\ KeyEnabled(req)
    /\ SignatureMatches(req)

----------------------------------------------------------------------------
(* Properties of the admin router (SpecAdmin) *)

AdminRoutes ==
    {"GET /metrics", "GET /api-keys", "POST /api-keys",
     "POST /api-keys/:apiKey/disable", "GET /stats/usage",
     "GET /stats/api-key/:apiKey", "POST /cache/clear", "GET /logs"}

\* C27: a request to a route of the admin router whose X-Admin-Token is not
\* the configured token is refused with 403 ADMIN_AUTH_REQUIRED and leaves
\* the cache and the API-key store as they were.
C27_AdminTokenRequired ==
    [][(last'.op \in AdminRoutes /\ last'.value # <<configToken>>)
          => /\ last'.status = 403
             /\ last'.err = "ADMIN_AUTH_REQUIRED"
             /\ cache' = cache
             /\ apiCredentials' = apiCredentials]_vars

----------------------------------------------------------------------------
(* Properties of concurrent calls (SpecConc) *)

\* the call has a result: it waits for the recorder or has returned
HasResult(call) == call.pc \in {"awaiting", "returned"}

SameInput(c1, c2) == c1.css = c2.css /\ c1.opts = c2.opts

\* the calls made so far that are past the cache lookup, by request
Requests == {<<calls[p].css, calls[p].opts>> : p \in DOMAIN calls}

\* C30: among concurrent ltrToRtl calls with the same css and options, with
\* no expiry, eviction or clear, exactly one computes and stores the result
\* and every other one is a hit with the same converted text; whenever the
\* thread is free, stored and misses count one per distinct request.
C30_OneComputes ==
    /\ \A p \in DOMAIN calls :
          HasResult(calls[p])
              => LET same == {q \in DOMAIN calls :
                                /\ SameInput(calls[p], calls[q])
                                /\ HasResult(calls[q])}
                 IN /\ Cardinality({q \in same : ~calls[q].hit}) = 1
                    /\ \A q \in same :
                          calls[q].result[1].converted
                              = calls[p].result[1].converted
    /\ running = 0
          => /\ stats.stored = Cardinality(Requests)
             /\ stats.misses = Cardinality(Requests)
             /\ stats.hits = Len(calls) - Cardinality(Requests)

\* C30 witness: while the call that computed the result waits for the
\* recorder, two more calls for the same style sheet were answered from the
\* cache
C30_Witness ==
    /\ Len(calls) = 3
    /\ calls[1].pc = "awaiting" /\ ~calls[1].hit
    /\ \A p \in {2, 3} : /\ calls[p].hit
                          /\ calls[p].css = calls[1].css
                          /\ calls[p].result = calls[1].result
    /\ stats.stored = 1 /\ stats.misses = 1 /\ stats.hits = 2

====
